---- MODULE Spec2Model ----
(***************************************************************************)
(* Clarity background service worker: the session tracker, the day         *)
(* rollover, the blocking-rule compiler and the control messages, as a     *)
(* state machine.  One action per event handler of service-worker.ts; the  *)
(* IndexedDB stores of database.ts are the storage variables.              *)
(*                                                                         *)
(* Time is counted in ticks; TicksPerSec ticks make one second (the code   *)
(* counts milliseconds and divides by 1000 with Math.floor).  A date is    *)
(* the number of the UTC day (the code formats it as YYYY-MM-DD).          *)
(* faviconUrl, lastVisit and dateAdded are carried by the code but never   *)
(* read by it for a decision; they are left out of the rows.               *)
(***************************************************************************)
EXTENDS Integers, Sequences, FiniteSets, TLC

\* ---------------------------------------------------------------- bounds
TicksPerSec == 2
DaySecs == 3
TicksBefore == 5
TicksAfter == 3
MaxBlockedId == 2
RulesMaxTicks == 4
SaveActivitySecs == 2
MaxNotified == 2

DayTicks == DaySecs * TicksPerSec
SaveActivityTicks == SaveActivitySecs * TicksPerSec
StartNow == 2 * DayTicks - TicksBefore
MaxNow == 2 * DayTicks + TicksAfter

\* local UTC offsets of the machine, in seconds
TZOffsets == {0 - 1, 0, 1}

\* tabs that exist, and the tabs the user brings to the front
TabIds == {1, 2}
FrontTabIds == {1}
Domains == {<<"a">>, <<"a", "b">>}
NoDomain == <<>>
Patterns == {<<"A">>, <<"a", "b">>}
TimerLimits == {2}
Thresholds == {1, 2}

\* URLs are token sequences: a scheme token, then the characters of the rest
UrlOf(d) == <<"https://">> \o d \o <<"/">>
Urls ==
  {UrlOf(<<"a">>), <<"https://", "www.", "a", "b", "/">>, <<"chrome://", "newtab">>, <<>>}

\* -------------------------------------------------------- db/utils.ts
Today(t) == t \div DayTicks

\* new Date(today) is UTC midnight of the date; setHours(0,0,0,0) then moves
\* it to the local midnight of the local date that instant falls on
MidnightOf(today, off) ==
  LET utcMidnight == today * DayTicks
      localDay == (utcMidnight + off * TicksPerSec) \div DayTicks
  IN localDay * DayTicks - off * TicksPerSec

StartsWith(s, p) == Len(s) >= Len(p) /\ SubSeq(s, 1, Len(p)) = p

IsInternalPage(url) ==
  \E p \in {<<"chrome://">>, <<"chrome-extension://">>, <<"edge://">>, <<"about:">>,
            <<"chrome.google.com/webstore">>} :
    StartsWith(url, p)

IsNewTabPage(url) ==
  \/ \E p \in {<<"chrome://", "newtab">>, <<"edge://", "newtab">>,
               <<"about:", "newtab">>, <<"about:", "blank">>} : StartsWith(url, p)
  \/ url = <<>>

RECURSIVE UpToSlash(_)
UpToSlash(s) ==
  IF s = <<>> \/ Head(s) = "/" THEN <<>> ELSE <<Head(s)>> \o UpToSlash(Tail(s))

\* new URL(url).hostname with a leading "www." removed
ExtractDomain(url) ==
  LET rest == IF url # <<>> /\ Head(url) = "https://" THEN Tail(url) ELSE url
      host == UpToSlash(rest)
  IN IF host # <<>> /\ Head(host) = "www." THEN Tail(host) ELSE host

ToLowerChar(c) == IF c = "A" THEN "a" ELSE c
ToLower(s) == [i \in 1..Len(s) |-> ToLowerChar(s[i])]

Contains(s, p) ==
  \E i \in 0..(Len(s) - Len(p)) : SubSeq(s, i + 1, i + Len(p)) = p

\* -------------------------------------------------------- db/database.ts
NoRow == [date |-> 0, domain |-> NoDomain, timeSpent |-> 0, visitCount |-> 0]

GetWebsiteActivity(wa, date, domain) ==
  IF \E r \in wa : r.date = date /\ r.domain = domain
  THEN CHOOSE r \in wa : r.date = date /\ r.domain = domain
  ELSE NoRow

SaveWebsiteActivity(wa, activity) ==
  LET existing == GetWebsiteActivity(wa, activity.date, activity.domain)
  IN IF existing # NoRow THEN (wa \ {existing}) \cup {activity} ELSE wa \cup {activity}

GetWebsiteActivitiesForDate(wa, date) == {r \in wa : r.date = date}

SaveDailyActivity(daily, activity) ==
  IF \E r \in daily : r.date = activity.date
  THEN (daily \ {CHOOSE r \in daily : r.date = activity.date}) \cup {activity}
  ELSE daily \cup {activity}

RECURSIVE SumTimeSpent(_)
SumTimeSpent(rows) ==
  IF rows = {} THEN 0
  ELSE LET r == CHOOSE x \in rows : TRUE
       IN r.timeSpent + SumTimeSpent(rows \ {r})

\* variant: the totals taken over every stored row, whatever its date
DailyTotals_AllDates(wa, date) ==
  [date |-> date,
   totalTime |-> SumTimeSpent(wa),
   websiteCount |-> Cardinality(wa)]

\* the derived DailyActivity row of a date (service-worker.ts 194-201, 246-254)
DailyTotals(wa, date) ==
  LET dailyActivities == GetWebsiteActivitiesForDate(wa, date)
  IN [date |-> date,
      totalTime |-> SumTimeSpent(dailyActivities),
      websiteCount |-> Cardinality(dailyActivities)]

\* variant: the filter anchored at the start of the URL
ParentalRule_Anchored(blocked, ruleId) ==
  LET pattern == ToLower(blocked.urlPattern)
  IN [id |-> ruleId, reason |-> "parental", domain |-> pattern, limit |-> 0,
      urlFilter |-> <<"|">> \o pattern \o <<"*">>]

\* ------------------------------------------- updateBlockingRules (74-147)
ParentalRule(blocked, ruleId) ==
  LET pattern == ToLower(blocked.urlPattern)
  IN [id |-> ruleId, reason |-> "parental", domain |-> pattern, limit |-> 0,
      urlFilter |-> <<"*">> \o pattern \o <<"*">>]

TimerRule(timer, ruleId) ==
  [id |-> ruleId, reason |-> "timer", domain |-> timer.domain, limit |-> timer.timeLimit,
   urlFilter |-> <<"*">> \o timer.domain \o <<"*">>]

\* variant: a disabled timer still compiles its rule
TimerExceeded_IgnoresEnabled(timer, activities) ==
  \E a \in activities : a.domain = timer.domain /\ a.timeSpent >= timer.timeLimit

TimerExceeded(timer, activities) ==
  /\ timer.enabled
  /\ \E a \in activities : a.domain = timer.domain /\ a.timeSpent >= timer.timeLimit

RECURSIVE TimerRules(_, _, _)
TimerRules(timers, activities, ruleId) ==
  IF timers = <<>> THEN <<>>
  ELSE IF TimerExceeded(Head(timers), activities)
       THEN <<TimerRule(Head(timers), ruleId)>> \o TimerRules(Tail(timers), activities, ruleId + 1)
       ELSE TimerRules(Tail(timers), activities, ruleId)

CompileRules(blocked, timers, activities) ==
  [i \in 1..Len(blocked) |-> ParentalRule(blocked[i], i)]
    \o TimerRules(timers, activities, Len(blocked) + 1)

\* variant: the rows of every date count towards a timer's limit
UpdateBlockingRules_AnyDate(blocked, timers, wa, t) ==
  CompileRules(blocked, timers, wa)

\* the whole of updateBlockingRules: read the three tables, compile, and
\* replace every installed dynamic rule by the compiled ones
UpdateBlockingRules(blocked, timers, wa, t) ==
  CompileRules(blocked, timers, GetWebsiteActivitiesForDate(wa, Today(t)))

\* How the host reads condition.urlFilter (101-104): "*" stands for any run of
\* characters, "|" at an end anchors the filter to that end of the URL, an end
\* without anchor may fall anywhere in the URL, and letters match without
\* regard to case (isUrlFilterCaseSensitive is left at its default).
RECURSIVE GlobMatch(_, _)
GlobMatch(f, u) ==
  IF f = <<>> THEN u = <<>>
  ELSE IF Head(f) = "*"
       THEN GlobMatch(Tail(f), u) \/ (u # <<>> /\ GlobMatch(f, Tail(u)))
       ELSE u # <<>> /\ Head(f) = Head(u) /\ GlobMatch(Tail(f), Tail(u))

MatchesRule(rule, url) ==
  LET f == ToLower(rule.urlFilter)
      left == f # <<>> /\ Head(f) = "|"
      right == Len(f) > 1 /\ f[Len(f)] = "|"
      body == SubSeq(f, IF left THEN 2 ELSE 1, IF right THEN Len(f) - 1 ELSE Len(f))
  IN GlobMatch((IF left THEN <<>> ELSE <<"*">>) \o body \o (IF right THEN <<>> ELSE <<"*">>),
               ToLower(url))

\* ------------------------------------------- saveCurrentSession (152-266)
\* The engine state a flush reads and writes is passed as one record:
\*   cs currentSession, wa / daily the two activity stores, rules the installed
\*   dynamic rules, tracker the notificationTracker, reload the tab a reload
\*   was issued for (NoReload none), failed whether a storage operation rejected,
\*   opened whether a Session was opened (history only).
\* env is what the environment decides during the flush: prevFail / curFail
\* say where storage rejects on the rollover and on the normal path ("none",
\* "beforeRow": the row is not written, "afterRow": the row is written and the
\* daily row is not), tabShows whether the tracked tab still shows the domain.
FailPoints == {"none", "beforeRow", "afterRow"}

TimerOf(cache, domain) ==
  IF \E tm \in cache : tm.domain = domain
  THEN CHOOSE tm \in cache : tm.domain = domain
  ELSE [domain |-> NoDomain, timeLimit |-> 0, enabled |-> FALSE]

\* chrome.tabs.reload (286): the tab, and the dynamic rules installed when
\* the call is made
NoReload == [tabId |-> 0, seen |-> <<>>]

\* variant: the tab reloaded before the rules are recompiled
CheckTimerLimit_ReloadsFirst(st, domain, timeSpent, t, cache, blocked, timers, tabShows) ==
  LET timer == TimerOf(cache, domain)
  IN IF timer.domain = NoDomain \/ ~timer.enabled THEN st
     ELSE IF timeSpent >= timer.timeLimit
          THEN [st EXCEPT
                  !.rules = UpdateBlockingRules(blocked, timers, st.wa, t),
                  !.reload = IF st.cs.domain = domain /\ st.cs.tabId # 0 /\ tabShows
                             THEN [tabId |-> st.cs.tabId, seen |-> st.rules]
                             ELSE st.reload]
          ELSE st

\* checkTimerLimit (271-293): the timer of the cache (272-273), the rules
\* recompiled (278), then the tab reloaded (281-287)
CheckTimerLimit(st, domain, timeSpent, t, cache, blocked, timers, tabShows) ==
  LET timer == TimerOf(cache, domain)
      rules1 == UpdateBlockingRules(blocked, timers, st.wa, t)
  IN IF timer.domain = NoDomain \/ ~timer.enabled THEN st
     ELSE IF timeSpent >= timer.timeLimit
          THEN [st EXCEPT
                  !.rules = rules1,
                  !.reload = IF st.cs.domain = domain /\ st.cs.tabId # 0 /\ tabShows
                             THEN [tabId |-> st.cs.tabId, seen |-> rules1]
                             ELSE st.reload]
          ELSE st

\* the rollover branch (166-221)
Rollover(st, t, off, blocked, timers, env) ==
  LET today == Today(t)
      midnightTime == MidnightOf(today, off)
      timeUntilMidnight == (midnightTime - st.cs.startTime) \div TicksPerSec
      domain == st.cs.domain
      existing == GetWebsiteActivity(st.wa, st.cs.sessionDate, domain)
      activity == [date |-> st.cs.sessionDate, domain |-> domain,
                   timeSpent |-> existing.timeSpent + timeUntilMidnight,
                   visitCount |-> existing.visitCount + (IF st.cs.isNewVisit THEN 1 ELSE 0)]
      wa1 == IF timeUntilMidnight > 0 /\ env.prevFail # "beforeRow"
             THEN SaveWebsiteActivity(st.wa, activity) ELSE st.wa
      daily1 == IF timeUntilMidnight > 0 /\ env.prevFail = "none"
                THEN SaveDailyActivity(st.daily, DailyTotals(wa1, st.cs.sessionDate))
                ELSE st.daily
  IN [st EXCEPT
        !.cs = [st.cs EXCEPT !.startTime = midnightTime, !.sessionDate = today,
                             !.isNewVisit = TRUE],
        !.wa = wa1,
        !.daily = daily1,
        !.tracker = {},
        !.rules = UpdateBlockingRules(blocked, timers, wa1, t),
        !.failed = st.failed \/ (timeUntilMidnight > 0 /\ env.prevFail # "none")]

\* the normal path (223-265), entered with timeSpent >= 1
NormalSave(st, t, timeSpent, cache, blocked, timers, env) ==
  LET today == Today(t)
      domain == st.cs.domain
      existing == GetWebsiteActivity(st.wa, today, domain)
      activity == [date |-> today, domain |-> domain,
                   timeSpent |-> existing.timeSpent + timeSpent,
                   visitCount |-> existing.visitCount + (IF st.cs.isNewVisit THEN 1 ELSE 0)]
      rowOk == env.curFail # "beforeRow"
      allOk == env.curFail = "none"
      st1 == [st EXCEPT
                !.wa = IF rowOk THEN SaveWebsiteActivity(st.wa, activity) ELSE st.wa,
                !.cs = [st.cs EXCEPT !.isNewVisit = IF rowOk THEN FALSE ELSE st.cs.isNewVisit],
                !.failed = st.failed \/ ~allOk]
      st2 == IF allOk
             THEN [st1 EXCEPT !.daily = SaveDailyActivity(st1.daily, DailyTotals(st1.wa, today))]
             ELSE st1
      st3 == IF allOk
             THEN CheckTimerLimit(st2, domain, activity.timeSpent, t, cache, blocked, timers,
                                  env.tabShows)
             ELSE st2
  IN [st3 EXCEPT !.cs = [st3.cs EXCEPT !.startTime = t]]

SaveCurrentSession(st, t, off, idle, cache, blocked, timers, env) ==
  IF idle THEN st
  ELSE IF st.cs.domain = NoDomain \/ st.cs.startTime = 0 THEN st
  ELSE LET today == Today(t)
           st1 == IF st.cs.sessionDate # 0 /\ st.cs.sessionDate # today
                  THEN Rollover(st, t, off, blocked, timers, env)
                  ELSE st
           timeSpent == (t - st1.cs.startTime) \div TicksPerSec
       IN IF timeSpent < 1 THEN st1
          ELSE NormalSave(st1, t, timeSpent, cache, blocked, timers, env)

\* ------------------------------------------- startTracking / stopTracking
EmptySession ==
  [tabId |-> 0, domain |-> NoDomain, startTime |-> 0, isNewVisit |-> FALSE, sessionDate |-> 0]

StopTracking(st, t, off, idle, cache, blocked, timers, env) ==
  [SaveCurrentSession(st, t, off, idle, cache, blocked, timers, env) EXCEPT !.cs = EmptySession]

\* variant: every URL opens a Session
StartTracking_TracksEveryUrl(st, tabId, url, t, off, idle, cache, blocked, timers, env) ==
  LET st1 == SaveCurrentSession(st, t, off, idle, cache, blocked, timers, env)
  IN [st1 EXCEPT !.cs = [tabId |-> tabId, domain |-> ExtractDomain(url), startTime |-> t,
                         isNewVisit |-> TRUE, sessionDate |-> Today(t)],
                 !.opened = TRUE]

StartTracking(st, tabId, url, t, off, idle, cache, blocked, timers, env) ==
  LET st1 == SaveCurrentSession(st, t, off, idle, cache, blocked, timers, env)
  IN IF IsInternalPage(url) \/ IsNewTabPage(url)
     THEN StopTracking(st1, t, off, idle, cache, blocked, timers, env)
     ELSE [st1 EXCEPT !.cs = [tabId |-> tabId, domain |-> ExtractDomain(url), startTime |-> t,
                              isNewVisit |-> TRUE, sessionDate |-> Today(t)],
                      !.opened = TRUE]

\* ------------------------------------------------------------ the state
VARIABLES
  now,                 \* Date.now(), in ticks
  tz,                  \* the machine's UTC offset, in seconds
  currentSession,      \* service-worker.ts 6-20
  isUserIdle,          \* service-worker.ts 23
  timerCache,          \* service-worker.ts 27
  notificationTracker, \* service-worker.ts 30: (domain, threshold) pairs notified
  websiteActivity,     \* store websiteActivity
  dailyActivity,       \* store dailyActivity
  websiteTimers,       \* store websiteTimers, in key order
  blockedWebsites,     \* store blockedWebsites, in key order
  nextBlockedId,       \* the autoIncrement key generator of blockedWebsites
  settings,            \* store settings (its single row, or NoSettings)
  dynamicRules,        \* the rules installed with declarativeNetRequest
  notifications,       \* history: how often each (domain, threshold) was notified
  response,            \* the response the last handler sent (NoResponse if none)
  reload,              \* history: the tab the last handler reloaded, and the rules then installed
  failed,              \* history: a storage operation rejected in the last handler
  activeTicks,         \* history: ticks during which a Session was active and not idle
  everIdle,            \* history: an idle or locked signal has arrived
  sessions,            \* history: Sessions opened so far (2 stands for two or more)
  opening,             \* history: when and on which stored row the last Session was opened
  recording,           \* whether activeTicks, everIdle and sessions are recorded
  checks,              \* the notification checks that wait on notifications.create
  flushes,             \* the handlers that wait on storage inside saveCurrentSession
  queue,               \* the handlers whose storage request is pending, oldest first
  compiles,            \* the runs of updateBlockingRules that wait on the rules API
  lastCompiled,        \* history: the last compilation observed, and what the worker held then
  slept,               \* history: the last stretch the machine was asleep (from, to)
  saveActivityFired    \* how often the periodic saveActivity alarm has fired on time

vars ==
  <<now, tz, currentSession, isUserIdle, timerCache, notificationTracker, websiteActivity,
    dailyActivity, websiteTimers, blockedWebsites, nextBlockedId, settings, dynamicRules,
    notifications, response, reload, failed, activeTicks, everIdle, sessions, opening, recording,
    checks, flushes, queue, compiles, lastCompiled, slept, saveActivityFired>>

\* what the handlers in flight hold while they wait
flushVars == <<flushes, queue>>
compileVars == <<compiles, lastCompiled>>
asyncVars == <<checks, flushVars, compileVars>>

\* what the host keeps
hostVars == <<slept, saveActivityFired>>

policyVars ==
  <<timerCache, websiteTimers, blockedWebsites, nextBlockedId, settings, recording, asyncVars, hostVars>>

\* the two callers of checkAndSendNotifications (507-508, 605-607)
CheckIds == {"alarm", "message"}
NoCheck == [pc |-> "idle", pending |-> <<>>, rest |-> {}, arg |-> 0]

NoSleep == [from |-> 0, to |-> 0]

\* no Session opened yet: the instant of the last startTracking that opened
\* one (389-397), its domain and tab, and what today's row of that domain
\* held at that instant; kept only where a specification asks for it
NoOpening ==
  [kept |-> FALSE, at |-> 0, domain |-> NoDomain, tabId |-> 0, timeSpent |-> 0, visitCount |-> 0]

\* the callers of updateBlockingRules that run it one API call at a time: the
\* updateRules alarm (505-506) and a block message (577-591)
CompileIds == {"alarm", "message"}

\* no compilation observed yet: the snapshot it read (77-82), the rules it
\* built (84-131), and the Session, the idle flag, the timer cache, the
\* notification tracker and the installed rules at that moment
NoCompiled ==
  [n |-> 0, blocked |-> <<>>, timers |-> <<>>, activities |-> {}, rules |-> <<>>,
   session |-> EmptySession, idle |-> FALSE, cache |-> {}, tracker |-> {}, previous |-> <<>>,
   moved |-> {}]

\* the handlers that run saveCurrentSession one storage request at a time:
\* the saveActivity alarm (503-504) and a tab activation (436-445)
FlushIds == {"alarm", "tab"}
NoDaily == [date |-> 0, totalTime |-> 0, websiteCount |-> 0]
NoFlush ==
  [pc |-> "idle", today |-> 0, midnight |-> 0, domain |-> NoDomain, key |-> 0, timeSpent |-> 0,
   activity |-> NoRow, daily |-> NoDaily, tabId |-> 0, url |-> <<>>,
   began |-> [date |-> 0, domain |-> NoDomain]]

\* the settings store as getSettings (296-303) reads it: whether getAll()[0]
\* exists, its fields, and the number of rows the store holds
NoSettings ==
  [present |-> FALSE, reminderEnabled |-> FALSE, hasThresholds |-> FALSE,
   reminderThresholds |-> {}, rows |-> 0]
\* what a response says of the message it answers: the timer, the domain or
\* pattern, the id or flag, or the keys of the file it was about
NoArg ==
  [timer |-> [domain |-> NoDomain, timeLimit |-> 0, enabled |-> FALSE], text |-> <<>>,
   num |-> 0, keys |-> {}]
TimerArg(timer) == [NoArg EXCEPT !.timer = timer]
TextArg(text) == [NoArg EXCEPT !.text = text]
NumArg(num) == [NoArg EXCEPT !.num = num]
KeysArg(keys) == [NoArg EXCEPT !.keys = keys]

\* a run of updateBlockingRules: where it waits, the rules it has compiled,
\* the ids getDynamicRules gave it, and the message it will answer
NoCompile == [pc |-> "idle", rules |-> <<>>, existing |-> {}, type |-> "none", arg |-> NoArg]

NoResponse ==
  [type |-> "none", success |-> FALSE, arg |-> NoArg, seen |-> <<>>, cache |-> {}, did |-> {}]

\* the worker's memory when it has just been loaded
InitWorker ==
  /\ currentSession = EmptySession
  /\ isUserIdle = FALSE
  /\ notificationTracker = {}
  /\ notifications = [k \in Domains \X Thresholds |-> 0]
  /\ response = NoResponse
  /\ reload = NoReload
  /\ failed = FALSE
  /\ activeTicks = 0
  /\ everIdle = FALSE
  /\ sessions = 0
  /\ checks = [p \in CheckIds |-> NoCheck]
  /\ flushes = [p \in FlushIds |-> NoFlush]
  /\ queue = <<>>
  /\ compiles = [p \in CompileIds |-> NoCompile]
  /\ lastCompiled = NoCompiled
  /\ slept = NoSleep
  /\ saveActivityFired = 0

\* a first run: no timer, no block entry, no settings, no rule installed
InitPolicy ==
  /\ timerCache = {}
  /\ websiteTimers = <<>>
  /\ blockedWebsites = <<>>
  /\ nextBlockedId = 1
  /\ settings = NoSettings
  /\ dynamicRules = <<>>

InitRest ==
  /\ InitPolicy
  /\ InitWorker
  /\ opening = NoOpening

InitEngine ==
  /\ websiteActivity = {}
  /\ dailyActivity = {}
  /\ InitRest

Init ==
  /\ now = StartNow
  /\ tz \in TZOffsets
  /\ recording = TRUE
  /\ InitEngine

\* the engine record of the current state, as a handler finds it
Engine ==
  [cs |-> currentSession, wa |-> websiteActivity, daily |-> dailyActivity,
   rules |-> dynamicRules, tracker |-> notificationTracker, reload |-> NoReload, failed |-> FALSE,
   opened |-> FALSE]

Commit(st) ==
  /\ currentSession' = st.cs
  /\ websiteActivity' = st.wa
  /\ dailyActivity' = st.daily
  /\ dynamicRules' = st.rules
  /\ notificationTracker' = st.tracker
  /\ reload' = st.reload
  /\ failed' = st.failed
  /\ response' = NoResponse
  /\ sessions' = IF st.opened /\ recording THEN (IF sessions = 0 THEN 1 ELSE 2) ELSE sessions
  /\ opening' = IF st.opened /\ opening.kept
                THEN LET row == GetWebsiteActivity(st.wa, Today(now), st.cs.domain)
                     IN [kept |-> TRUE, at |-> now, domain |-> st.cs.domain, tabId |-> st.cs.tabId,
                         timeSpent |-> row.timeSpent, visitCount |-> row.visitCount]
                ELSE opening

Envs(fps) == [prevFail : fps, curFail : fps, tabShows : IF websiteTimers = <<>> THEN {TRUE} ELSE BOOLEAN]

Save(st, env) ==
  SaveCurrentSession(st, now, tz, isUserIdle, timerCache, blockedWebsites, websiteTimers, env)
Stop(st, env) ==
  StopTracking(st, now, tz, isUserIdle, timerCache, blockedWebsites, websiteTimers, env)
Start(st, tabId, url, env) ==
  StartTracking(st, tabId, url, now, tz, isUserIdle, timerCache, blockedWebsites,
                websiteTimers, env)

\* --------------------------------------------------------------- the clock
Tick(cap) ==
  /\ now < cap
  /\ now' = now + 1
  /\ activeTicks' =
       IF currentSession.domain # NoDomain /\ ~isUserIdle /\ recording
       THEN activeTicks + 1 ELSE activeTicks
  /\ UNCHANGED <<tz, currentSession, isUserIdle, notificationTracker, websiteActivity,
                 dailyActivity, dynamicRules, notifications, response, reload, failed,
                 everIdle, sessions, opening>>
  /\ UNCHANGED policyVars

\* the machine sleeps: the clock moves on, no listener and no alarm runs, and
\* the service worker keeps its memory
Sleep(cap) ==
  /\ now < cap
  /\ \E t \in (now + 1)..cap :
       /\ now' = t
       /\ slept' = [from |-> now, to |-> t]
  /\ UNCHANGED <<tz, currentSession, isUserIdle, notificationTracker, websiteActivity,
                 dailyActivity, dynamicRules, notifications, response, reload, failed,
                 activeTicks, everIdle, sessions, opening>>
  /\ UNCHANGED <<timerCache, websiteTimers, blockedWebsites, nextBlockedId, settings, recording,
                 asyncVars, saveActivityFired>>

\* -------------------------------------------------- event listeners 436-520
\* chrome.tabs.onActivated (436-445): a tab without a URL starts nothing
OnActivated(st, tabId, url, env) ==
  IF url # <<>> THEN Start(st, tabId, url, env) ELSE st

TabActivated(fps) ==
  \E tabId \in FrontTabIds, url \in Urls, env \in Envs(fps) :
    /\ Commit(OnActivated(Engine, tabId, url, env))
    /\ UNCHANGED <<now, tz, isUserIdle, notifications, activeTicks, everIdle>>
    /\ UNCHANGED policyVars

\* chrome.tabs.onUpdated (448-453), for a complete load of the active tab
TabUpdated(fps) ==
  \E tabId \in FrontTabIds, url \in Urls \ {<<>>}, env \in Envs(fps) :
    /\ Commit(Start(Engine, tabId, url, env))
    /\ UNCHANGED <<now, tz, isUserIdle, notifications, activeTicks, everIdle>>
    /\ UNCHANGED policyVars

\* chrome.tabs.onRemoved (456-460)
TabRemoved(fps) ==
  \E tabId \in TabIds, env \in Envs(fps) :
    /\ Commit(IF currentSession.tabId = tabId THEN Stop(Engine, env) ELSE Engine)
    /\ UNCHANGED <<now, tz, isUserIdle, notifications, activeTicks, everIdle>>
    /\ UNCHANGED policyVars

\* chrome.windows.onFocusChanged (463-471) with checkActiveTab (420-431)
WindowFocusChanged(fps) ==
  \E focused \in BOOLEAN, tabId \in FrontTabIds, url \in Urls, env \in Envs(fps) :
    /\ Commit(IF focused /\ url # <<>> THEN Start(Engine, tabId, url, env)
              ELSE Stop(Engine, env))
    /\ UNCHANGED <<now, tz, isUserIdle, notifications, activeTicks, everIdle>>
    /\ UNCHANGED policyVars

\* chrome.idle.onStateChanged (474-499); the host reports "active" only after
\* it has reported "idle" or "locked"
IdleStateChanged(fps) ==
  \E newState \in {"idle", "locked", "active"}, env \in Envs(fps) :
    /\ newState = "active" => isUserIdle
    /\ IF newState \in {"idle", "locked"}
       THEN LET st == SaveCurrentSession(Engine, now, tz, TRUE, timerCache, blockedWebsites,
                                         websiteTimers, env)
            IN /\ isUserIdle' = TRUE
               /\ Commit(IF st.cs.domain # NoDomain /\ st.cs.startTime # 0
                         THEN [st EXCEPT !.cs = [st.cs EXCEPT !.startTime = now]]
                         ELSE st)
       ELSE /\ isUserIdle' = FALSE
            /\ Commit(IF currentSession.domain # NoDomain
                      THEN [Engine EXCEPT !.cs = [currentSession EXCEPT !.startTime = now]]
                      ELSE Engine)
    /\ everIdle' = (everIdle \/ (recording /\ newState \in {"idle", "locked"}))
    /\ UNCHANGED <<now, tz, notifications, activeTicks>>
    /\ UNCHANGED policyVars

\* chrome.alarms.onAlarm, "saveActivity" (503-504)
AlarmSaveActivity(fps) ==
  \E env \in Envs(fps) :
    /\ Commit(Save(Engine, env))
    /\ UNCHANGED <<now, tz, isUserIdle, notifications, activeTicks, everIdle>>
    /\ UNCHANGED policyVars

\* the saveActivity alarm as initialize creates it (42): periodic, first due
\* one period after the worker has started
SaveActivityDue == StartNow + (saveActivityFired + 1) * SaveActivityTicks

\* chrome.alarms.onAlarm, "saveActivity" (503-504), fired by the host at the
\* instant it is due
AlarmSaveActivityOnTime ==
  \E env \in Envs({"none"}) :
    /\ now = SaveActivityDue
    /\ Commit(Save(Engine, env))
    /\ saveActivityFired' = saveActivityFired + 1
    /\ UNCHANGED <<now, tz, isUserIdle, notifications, activeTicks, everIdle>>
    /\ UNCHANGED <<timerCache, websiteTimers, blockedWebsites, nextBlockedId, settings,
                   recording, asyncVars, slept>>

\* chrome.alarms.onAlarm, "midnightReset" (511-519); the alarm is set for the
\* local midnight (636-641)
AlarmMidnightReset(fps) ==
  \E env \in Envs(fps) :
    /\ (now + tz * TicksPerSec) % DayTicks = 0
    /\ LET st == Save(Engine, env)
       IN Commit([st EXCEPT !.tracker = {},
                            !.rules = UpdateBlockingRules(blockedWebsites, websiteTimers,
                                                          st.wa, now)])
    /\ UNCHANGED <<now, tz, isUserIdle, notifications, activeTicks, everIdle>>
    /\ UNCHANGED policyVars

\* chrome.alarms.onAlarm, "updateRules" (505-506)
AlarmUpdateRules ==
  /\ dynamicRules' = UpdateBlockingRules(blockedWebsites, websiteTimers, websiteActivity, now)
  /\ reload' = NoReload
  /\ failed' = FALSE
  /\ response' = NoResponse
  /\ UNCHANGED <<now, tz, currentSession, isUserIdle, notificationTracker, websiteActivity,
                 dailyActivity, notifications, activeTicks, everIdle, sessions, opening>>
  /\ UNCHANGED policyVars

\* what the worker holds apart from the three tables, by name
WorkerHolds ==
  [session |-> currentSession, idle |-> isUserIdle, cache |-> timerCache,
   tracker |-> notificationTracker, previous |-> dynamicRules]

\* variant: the ids go on from the number of rules installed
AlarmUpdateRulesObserved_NumbersOn ==
  LET activities == GetWebsiteActivitiesForDate(websiteActivity, Today(now))
      same == /\ lastCompiled.n > 0
              /\ lastCompiled.blocked = blockedWebsites
              /\ lastCompiled.timers = websiteTimers
              /\ lastCompiled.activities = activities
      built == UpdateBlockingRules(blockedWebsites, websiteTimers, websiteActivity, now)
  IN /\ dynamicRules' = [i \in 1..Len(built) |->
                           [built[i] EXCEPT !.id = @ + Len(dynamicRules)]]
     /\ lastCompiled' = [n |-> IF lastCompiled.n = 1 THEN 2 ELSE 1,
                         blocked |-> blockedWebsites, timers |-> websiteTimers,
                         activities |-> activities, rules |-> dynamicRules',
                         session |-> currentSession, idle |-> isUserIdle,
                         cache |-> timerCache, tracker |-> notificationTracker,
                         previous |-> dynamicRules,
                         moved |-> IF same
                                   THEN {k \in DOMAIN WorkerHolds : lastCompiled[k] # WorkerHolds[k]}
                                   ELSE {}]
     /\ reload' = NoReload
     /\ failed' = FALSE
     /\ response' = NoResponse
     /\ UNCHANGED <<now, tz, currentSession, isUserIdle, notificationTracker, websiteActivity,
                    dailyActivity, notifications, activeTicks, everIdle, sessions, opening>>
     /\ UNCHANGED <<timerCache, websiteTimers, blockedWebsites, nextBlockedId, settings,
                    recording, checks, flushVars, compiles, hostVars>>

\* the same alarm, with the compilation kept for comparison with the next
\* one: "moved" names what the worker held otherwise at the compilation
\* before, when that one read the same snapshot
AlarmUpdateRulesObserved ==
  LET activities == GetWebsiteActivitiesForDate(websiteActivity, Today(now))
      same == /\ lastCompiled.n > 0
              /\ lastCompiled.blocked = blockedWebsites
              /\ lastCompiled.timers = websiteTimers
              /\ lastCompiled.activities = activities
  IN /\ dynamicRules' = UpdateBlockingRules(blockedWebsites, websiteTimers, websiteActivity, now)
     /\ lastCompiled' = [n |-> IF lastCompiled.n = 1 THEN 2 ELSE 1,
                         blocked |-> blockedWebsites, timers |-> websiteTimers,
                         activities |-> activities, rules |-> dynamicRules',
                         session |-> currentSession, idle |-> isUserIdle,
                         cache |-> timerCache, tracker |-> notificationTracker,
                         previous |-> dynamicRules,
                         moved |-> IF same
                                   THEN {k \in DOMAIN WorkerHolds : lastCompiled[k] # WorkerHolds[k]}
                                   ELSE {}]
     /\ reload' = NoReload
     /\ failed' = FALSE
     /\ response' = NoResponse
     /\ UNCHANGED <<now, tz, currentSession, isUserIdle, notificationTracker, websiteActivity,
                    dailyActivity, notifications, activeTicks, everIdle, sessions, opening>>
     /\ UNCHANGED <<timerCache, websiteTimers, blockedWebsites, nextBlockedId, settings,
                    recording, checks, flushVars, compiles, hostVars>>

\* ------------------------------------------------ handleMessage (531-631)
RECURSIVE SeqToSet(_)
SeqToSet(q) == IF q = <<>> THEN {} ELSE {Head(q)} \cup SeqToSet(Tail(q))

RECURSIVE RemoveWhere(_, _, _)
\* the sequence q without the rows whose field f (a key) has the value v
RemoveWhere(q, f, v) ==
  IF q = <<>> THEN <<>>
  ELSE IF Head(q)[f] = v THEN RemoveWhere(Tail(q), f, v)
       ELSE <<Head(q)>> \o RemoveWhere(Tail(q), f, v)

\* database.ts saveTimer (216-234): put over the row of the domain, else add
SaveTimer(timers, timer) ==
  IF \E i \in 1..Len(timers) : timers[i].domain = timer.domain
  THEN [i \in 1..Len(timers) |-> IF timers[i].domain = timer.domain THEN timer ELSE timers[i]]
  ELSE Append(timers, timer)

\* database.ts deleteTimer (236-258)
DeleteTimerRow(timers, domain) == RemoveWhere(timers, "domain", domain)

\* loadTimerCache (66-69)
LoadTimerCache(timers) == SeqToSet(timers)

\* what sendResponse({success: true}) lets the caller see: the rules installed
\* and the timer cache at the moment the response is sent
\* a boolean of a payload, as the number a response record carries for it
Flag(b) == IF b THEN 1 ELSE 0

\* sendResponse: the answer, with what the caller finds installed and cached
\* when it arrives and the calls the handler has awaited before it
Success(type, arg, rules, cache, did) ==
  [type |-> type, success |-> TRUE, arg |-> arg, seen |-> rules, cache |-> cache, did |-> did]
Failure(type, arg, rules, cache) ==
  [type |-> type, success |-> FALSE, arg |-> arg, seen |-> rules, cache |-> cache, did |-> {}]

\* variant: the response sent before the cache refresh and the recompilation
TimerMessage_RespondsFirst(type, arg, timers1) ==
  LET cache1 == LoadTimerCache(timers1)
      rules1 == UpdateBlockingRules(blockedWebsites, timers1, websiteActivity, now)
  IN /\ websiteTimers' = timers1
     /\ timerCache' = cache1
     /\ dynamicRules' = rules1
     /\ response' = Success(type, arg, dynamicRules, timerCache, {})
     /\ reload' = NoReload
     /\ failed' = FALSE
     /\ UNCHANGED <<now, tz, currentSession, isUserIdle, notificationTracker, websiteActivity,
                    dailyActivity, blockedWebsites, nextBlockedId, settings, notifications,
                    activeTicks, everIdle, sessions, opening, recording, asyncVars, hostVars>>

\* variant: the timer stored, the cache left as it was
TimerMessage_KeepsCache(type, arg, timers1) ==
  LET rules1 == UpdateBlockingRules(blockedWebsites, timers1, websiteActivity, now)
  IN /\ websiteTimers' = timers1
     /\ timerCache' = timerCache
     /\ dynamicRules' = rules1
     /\ response' = Success(type, arg, rules1, timerCache, {"updateBlockingRules"})
     /\ reload' = NoReload
     /\ failed' = FALSE
     /\ UNCHANGED <<now, tz, currentSession, isUserIdle, notificationTracker, websiteActivity,
                    dailyActivity, blockedWebsites, nextBlockedId, settings, notifications,
                    activeTicks, everIdle, sessions, opening, recording, asyncVars, hostVars>>

\* the order of the UPDATE_TIMER / DELETE_TIMER cases (559-575): storage,
\* cache, rules, response
TimerMessage(type, arg, timers1) ==
  LET cache1 == LoadTimerCache(timers1)
      rules1 == UpdateBlockingRules(blockedWebsites, timers1, websiteActivity, now)
  IN /\ websiteTimers' = timers1
     /\ timerCache' = cache1
     /\ dynamicRules' = rules1
     /\ response' = Success(type, arg, rules1, cache1, {"loadTimerCache", "updateBlockingRules"})
     /\ reload' = NoReload
     /\ failed' = FALSE
     /\ UNCHANGED <<now, tz, currentSession, isUserIdle, notificationTracker, websiteActivity,
                    dailyActivity, blockedWebsites, nextBlockedId, settings, notifications,
                    activeTicks, everIdle, sessions, opening, recording, asyncVars, hostVars>>

\* the UPDATE_TIMER case (559-566): the payload goes to saveTimer as it came
UpdateTimerOf(limits) ==
  \E timer \in [domain : Domains, timeLimit : limits, enabled : BOOLEAN] :
    TimerMessage("UPDATE_TIMER", TimerArg(timer), SaveTimer(websiteTimers, timer))

UpdateTimer == UpdateTimerOf(TimerLimits)

DeleteTimer ==
  \E domain \in Domains :
    TimerMessage("DELETE_TIMER", TextArg(domain), DeleteTimerRow(websiteTimers, domain))

\* variant: the list stored, the rules left as they were
BlockMessage_KeepsRules(type, arg, blocked1, nextId1) ==
  /\ blockedWebsites' = blocked1
  /\ nextBlockedId' = nextId1
  /\ dynamicRules' = dynamicRules
  /\ response' = Success(type, arg, dynamicRules, timerCache, {})
  /\ reload' = NoReload
  /\ failed' = FALSE
  /\ UNCHANGED <<now, tz, currentSession, isUserIdle, notificationTracker, websiteActivity,
                 dailyActivity, websiteTimers, timerCache, settings, notifications,
                 activeTicks, everIdle, sessions, opening, recording, asyncVars, hostVars>>

\* the order of the ADD_BLOCKED_URL / REMOVE_BLOCKED_URL cases (577-591):
\* storage, rules, response
BlockMessage(type, arg, blocked1, nextId1) ==
  LET rules1 == UpdateBlockingRules(blocked1, websiteTimers, websiteActivity, now)
  IN /\ blockedWebsites' = blocked1
     /\ nextBlockedId' = nextId1
     /\ dynamicRules' = rules1
     /\ response' = Success(type, arg, rules1, timerCache, {"updateBlockingRules"})
     /\ reload' = NoReload
     /\ failed' = FALSE
     /\ UNCHANGED <<now, tz, currentSession, isUserIdle, notificationTracker, websiteActivity,
                    dailyActivity, websiteTimers, timerCache, settings, notifications,
                    activeTicks, everIdle, sessions, opening, recording, asyncVars, hostVars>>

\* variant: a urlPattern the list already holds is stored once more
AddBlockedUrl_AcceptsDuplicate ==
  \E urlPattern \in Patterns :
    /\ nextBlockedId <= MaxBlockedId
    /\ BlockMessage("ADD_BLOCKED_URL", TextArg(urlPattern),
                    Append(blockedWebsites, [id |-> nextBlockedId, urlPattern |-> urlPattern]),
                    nextBlockedId + 1)

\* database.ts addBlockedWebsite (271-283): store.add rejects a urlPattern the
\* unique index already holds, and the handler answers {error} (627-630)
AddBlockedUrl ==
  \E urlPattern \in Patterns :
    IF \E i \in 1..Len(blockedWebsites) : blockedWebsites[i].urlPattern = urlPattern
    THEN /\ response' = Failure("ADD_BLOCKED_URL", TextArg(urlPattern), dynamicRules, timerCache)
         /\ reload' = NoReload
         /\ failed' = TRUE
         /\ UNCHANGED <<now, tz, currentSession, isUserIdle, notificationTracker,
                        websiteActivity, dailyActivity, dynamicRules, notifications,
                        activeTicks, everIdle, sessions, opening>>
         /\ UNCHANGED policyVars
    ELSE /\ nextBlockedId <= MaxBlockedId
         /\ BlockMessage("ADD_BLOCKED_URL", TextArg(urlPattern),
                         Append(blockedWebsites,
                                [id |-> nextBlockedId, urlPattern |-> urlPattern]),
                         nextBlockedId + 1)

\* database.ts deleteBlockedWebsite (285-292)
RemoveBlockedUrl ==
  \E id \in 1..MaxBlockedId :
    BlockMessage("REMOVE_BLOCKED_URL", NumArg(id), RemoveWhere(blockedWebsites, "id", id),
                 nextBlockedId)

\* variant: the loop stops after the first threshold it notifies
NotifyAll_FirstOnly(nt, todo) ==
  IF todo = {} THEN nt
  ELSE LET k == CHOOSE x \in todo : TRUE
       IN [tracker |-> nt.tracker \cup {k}, sent |-> [nt.sent EXCEPT ![k] = @ + 1]]

\* checkAndSendNotifications (298-333); nt is [tracker, sent]
RECURSIVE NotifyAll(_, _)
NotifyAll(nt, todo) ==
  IF todo = {} THEN nt
  ELSE LET k == CHOOSE x \in todo : TRUE
       IN NotifyAll([tracker |-> nt.tracker \cup {k},
                     sent |-> [nt.sent EXCEPT ![k] = @ + 1]],
                    todo \ {k})

\* variant: the check does not look at reminderEnabled
CheckAndSendNotifications_IgnoresEnabled(nt, stg, wa, t) ==
  IF ~stg.present \/ ~stg.hasThresholds THEN nt
  ELSE NotifyAll(nt,
         {k \in Domains \X stg.reminderThresholds :
            /\ \E a \in GetWebsiteActivitiesForDate(wa, Today(t)) :
                 a.domain = k[1] /\ a.timeSpent >= k[2]
            /\ k \notin nt.tracker})

CheckAndSendNotifications(nt, stg, wa, t) ==
  IF ~stg.present \/ ~stg.reminderEnabled \/ ~stg.hasThresholds THEN nt
  ELSE NotifyAll(nt,
         {k \in Domains \X stg.reminderThresholds :
            /\ \E a \in GetWebsiteActivitiesForDate(wa, Today(t)) :
                 a.domain = k[1] /\ a.timeSpent >= k[2]
            /\ k \notin nt.tracker})

\* variant: the payload is added as a row of its own, and getAll()[0] stays
\* the oldest row
SaveSettings_AlwaysAdds(stg, payload) ==
  IF stg.present THEN [stg EXCEPT !.rows = @ + 1]
  ELSE [present |-> TRUE,
        reminderEnabled |-> payload.reminderEnabled,
        hasThresholds |-> payload.hasThresholds,
        reminderThresholds |-> payload.reminderThresholds,
        rows |-> 1]

\* database.ts saveSettings (305-322): the payload is merged over the first
\* row and put under its key, or added if the store is empty
SaveSettings(stg, payload) ==
  [present |-> TRUE,
   reminderEnabled |-> payload.reminderEnabled,
   hasThresholds |-> stg.hasThresholds \/ payload.hasThresholds,
   reminderThresholds |-> IF payload.hasThresholds THEN payload.reminderThresholds
                          ELSE stg.reminderThresholds,
   rows |-> IF stg.present THEN stg.rows ELSE stg.rows + 1]

SettingsPayloads ==
  {[reminderEnabled |-> e, hasThresholds |-> TRUE, reminderThresholds |-> Thresholds] :
     e \in BOOLEAN}
    \cup {[reminderEnabled |-> FALSE, hasThresholds |-> FALSE, reminderThresholds |-> {}]}

\* variant: the settings are stored and no check is run
UpdateSettings_NoCheck ==
  \E payload \in SettingsPayloads :
    /\ settings' = SaveSettings(settings, payload)
    /\ response' = Success("UPDATE_SETTINGS", NumArg(Flag(payload.reminderEnabled)), dynamicRules,
                           timerCache, {})
    /\ reload' = NoReload
    /\ failed' = FALSE
    /\ UNCHANGED <<now, tz, currentSession, isUserIdle, websiteActivity, dailyActivity,
                   websiteTimers, timerCache, blockedWebsites, nextBlockedId,
                   notificationTracker, notifications,
                   dynamicRules, activeTicks, everIdle, sessions, opening, recording, asyncVars, hostVars>>

\* the UPDATE_SETTINGS case (599-610)
UpdateSettings ==
  \E payload \in SettingsPayloads :
    LET stg1 == SaveSettings(settings, payload)
        nt0 == [tracker |-> notificationTracker, sent |-> notifications]
        nt1 == IF payload.reminderEnabled
               THEN CheckAndSendNotifications(nt0, stg1, websiteActivity, now)
               ELSE nt0
    IN /\ settings' = stg1
       /\ notificationTracker' = nt1.tracker
       /\ notifications' = nt1.sent
       /\ response' = Success("UPDATE_SETTINGS", NumArg(Flag(payload.reminderEnabled)), dynamicRules,
                              timerCache, {})
       /\ reload' = NoReload
       /\ failed' = FALSE
       /\ UNCHANGED <<now, tz, currentSession, isUserIdle, websiteActivity, dailyActivity,
                      websiteTimers, timerCache, blockedWebsites, nextBlockedId,
                      dynamicRules, activeTicks, everIdle, sessions, opening, recording, asyncVars, hostVars>>

\* chrome.alarms.onAlarm, "checkNotifications" (507-508), run to its end
AlarmCheckNotifications ==
  LET nt == CheckAndSendNotifications([tracker |-> notificationTracker, sent |-> notifications],
                                      settings, websiteActivity, now)
  IN /\ notificationTracker' = nt.tracker
     /\ notifications' = nt.sent
     /\ response' = NoResponse
     /\ reload' = NoReload
     /\ failed' = FALSE
     /\ UNCHANGED <<now, tz, currentSession, isUserIdle, websiteActivity, dailyActivity,
                    dynamicRules, activeTicks, everIdle, sessions, opening>>
     /\ UNCHANGED policyVars

\* ---- checkAndSendNotifications step by step: a check waits on
\* `await sendScreenTimeNotification` (324) before it adds the threshold (325)
\* the (domain, threshold) pairs reached in the rows a check has read (300-308)
Reached(stg, wa, t) ==
  IF ~stg.present \/ ~stg.reminderEnabled \/ ~stg.hasThresholds THEN {}
  ELSE {k \in Domains \X stg.reminderThresholds :
          \E a \in GetWebsiteActivitiesForDate(wa, Today(t)) :
            a.domain = k[1] /\ a.timeSpent >= k[2]}

\* the loop 311-330 from where check p stands: it passes the pairs the tracker
\* holds and stops at the next other pair, whose notification it creates; the
\* rows come in key order, which the store variable does not keep, so every
\* order is taken
CheckLoop(p, chk, tracker1) ==
  LET open == chk.rest \ tracker1
  IN IF open = {}
     THEN /\ checks' = [checks EXCEPT ![p] = NoCheck]
          /\ notifications' = notifications
          /\ response' = IF p = "message"
                         THEN Success("UPDATE_SETTINGS", NumArg(chk.arg), dynamicRules, timerCache, {})
                         ELSE NoResponse
     ELSE \E k \in open :
            /\ checks' = [checks EXCEPT ![p] = [pc |-> "sending", pending |-> k,
                                                rest |-> chk.rest \ {k}, arg |-> chk.arg]]
            /\ notifications' = [notifications EXCEPT ![k] = @ + 1]
            /\ response' = NoResponse

\* "checkNotifications" (507-508) up to its first wait
AlarmCheckStart ==
  /\ checks["alarm"].pc = "idle"
  /\ CheckLoop("alarm", [NoCheck EXCEPT !.rest = Reached(settings, websiteActivity, now)],
               notificationTracker)
  /\ reload' = NoReload
  /\ failed' = FALSE
  /\ UNCHANGED <<now, tz, currentSession, isUserIdle, notificationTracker, websiteActivity,
                 dailyActivity, dynamicRules, activeTicks, everIdle, sessions, opening, timerCache,
                 websiteTimers, blockedWebsites, nextBlockedId, settings, recording, flushVars, compileVars, hostVars>>

\* UPDATE_SETTINGS (599-610) up to the first wait of its check
UpdateSettingsStart ==
  \E payload \in SettingsPayloads :
    LET stg1 == SaveSettings(settings, payload)
    IN /\ checks["message"].pc = "idle"
       /\ settings' = stg1
       /\ IF payload.reminderEnabled
          THEN CheckLoop("message",
                         [NoCheck EXCEPT !.rest = Reached(stg1, websiteActivity, now),
                                         !.arg = Flag(TRUE)],
                         notificationTracker)
          ELSE /\ checks' = checks
               /\ notifications' = notifications
               /\ response' = Success("UPDATE_SETTINGS", NumArg(Flag(FALSE)), dynamicRules, timerCache, {})
       /\ reload' = NoReload
       /\ failed' = FALSE
       /\ UNCHANGED <<now, tz, currentSession, isUserIdle, notificationTracker,
                      websiteActivity, dailyActivity, dynamicRules, activeTicks, everIdle,
                      sessions, opening, timerCache, websiteTimers, blockedWebsites, nextBlockedId,
                      recording, flushVars, compileVars, hostVars>>

\* notifications.create has answered check p: the threshold is added (325)
\* and the loop goes on
CheckResume(p) ==
  /\ checks[p].pc = "sending"
  /\ notificationTracker' = notificationTracker \cup {checks[p].pending}
  /\ CheckLoop(p, checks[p], notificationTracker \cup {checks[p].pending})
  /\ reload' = NoReload
  /\ failed' = FALSE
  /\ UNCHANGED <<now, tz, currentSession, isUserIdle, websiteActivity, dailyActivity,
                 dynamicRules, activeTicks, everIdle, sessions, opening, timerCache, websiteTimers,
                 blockedWebsites, nextBlockedId, settings, recording, flushVars, compileVars, hostVars>>

\* ---- updateBlockingRules one API call at a time: the rules are compiled
\* (76-131), then getDynamicRules is awaited (134-135), then
\* updateDynamicRules (138-141)
RuleIds(rules) == {rules[i].id : i \in 1..Len(rules)}

\* variant: the call made without removeRuleIds
UpdateDynamicRules_RemovesNothing(installed, removeRuleIds, addRules) ==
  IF \/ RuleIds(installed) \cap RuleIds(addRules) # {}
     \/ Cardinality(RuleIds(addRules)) # Len(addRules)
  THEN installed
  ELSE installed \o addRules

\* chrome.declarativeNetRequest.updateDynamicRules: one atomic call that
\* removes the rules with the ids given and adds the new ones, and that
\* rejects, changing nothing, if a rule added has the id of a rule that stays
\* or of another rule added
UpdateDynamicRules(installed, removeRuleIds, addRules) ==
  LET Stays(r) == r.id \notin removeRuleIds
      kept == SelectSeq(installed, Stays)
  IN IF \/ RuleIds(kept) \cap RuleIds(addRules) # {}
        \/ Cardinality(RuleIds(addRules)) # Len(addRules)
     THEN installed
     ELSE kept \o addRules

\* lines 76-131 for caller p, over tables as they are read
CompileBegin(p, type, arg, blocked) ==
  /\ lastCompiled' = lastCompiled
  /\ compiles' = [compiles EXCEPT ![p] =
                    [pc |-> "getDynamicRules",
                     rules |-> UpdateBlockingRules(blocked, websiteTimers, websiteActivity, now),
                     existing |-> {}, type |-> type, arg |-> arg]]
  /\ response' = NoResponse
  /\ reload' = NoReload
  /\ failed' = FALSE
  /\ UNCHANGED <<now, tz, currentSession, isUserIdle, notificationTracker, websiteActivity,
                 dailyActivity, dynamicRules, notifications, activeTicks, everIdle, sessions, opening,
                 timerCache, websiteTimers, settings, recording, checks, flushVars, hostVars>>

\* chrome.alarms.onAlarm, "updateRules" (505-506), up to its first API call
AlarmUpdateRulesStart ==
  /\ compiles["alarm"].pc = "idle"
  /\ CompileBegin("alarm", "none", NoArg, blockedWebsites)
  /\ UNCHANGED <<blockedWebsites, nextBlockedId>>

\* ADD_BLOCKED_URL (577-583) up to the first API call of its compilation; a
\* pattern the list holds is rejected by the store and answered at once
AddBlockedUrlStart ==
  \E urlPattern \in Patterns :
    /\ compiles["message"].pc = "idle"
    /\ IF \E i \in 1..Len(blockedWebsites) : blockedWebsites[i].urlPattern = urlPattern
       THEN /\ response' = Failure("ADD_BLOCKED_URL", TextArg(urlPattern), dynamicRules,
                                   timerCache)
            /\ reload' = NoReload
            /\ failed' = TRUE
            /\ UNCHANGED <<now, tz, currentSession, isUserIdle, notificationTracker,
                           websiteActivity, dailyActivity, dynamicRules, notifications,
                           activeTicks, everIdle, sessions, opening>>
            /\ UNCHANGED policyVars
       ELSE LET blocked1 == Append(blockedWebsites,
                                   [id |-> nextBlockedId, urlPattern |-> urlPattern])
            IN /\ nextBlockedId <= MaxBlockedId
               /\ blockedWebsites' = blocked1
               /\ nextBlockedId' = nextBlockedId + 1
               /\ CompileBegin("message", "ADD_BLOCKED_URL", TextArg(urlPattern), blocked1)

\* REMOVE_BLOCKED_URL (585-591) up to the first API call of its compilation
RemoveBlockedUrlStart ==
  \E id \in 1..MaxBlockedId :
    LET blocked1 == RemoveWhere(blockedWebsites, "id", id)
    IN /\ compiles["message"].pc = "idle"
       /\ blockedWebsites' = blocked1
       /\ nextBlockedId' = nextBlockedId
       /\ CompileBegin("message", "REMOVE_BLOCKED_URL", NumArg(id), blocked1)

\* getDynamicRules has answered run p (134-135)
CompileGetRules(p) ==
  /\ compiles[p].pc = "getDynamicRules"
  /\ lastCompiled' = lastCompiled
  /\ compiles' = [compiles EXCEPT ![p] = [@ EXCEPT !.pc = "updateDynamicRules",
                                                   !.existing = RuleIds(dynamicRules)]]
  /\ response' = NoResponse
  /\ reload' = NoReload
  /\ failed' = FALSE
  /\ UNCHANGED <<now, tz, currentSession, isUserIdle, notificationTracker, websiteActivity,
                 dailyActivity, dynamicRules, notifications, activeTicks, everIdle, sessions, opening,
                 timerCache, websiteTimers, blockedWebsites, nextBlockedId, settings,
                 recording, checks, flushVars, hostVars>>

\* updateDynamicRules has answered run p (138-146): the run ends, and a
\* message is answered {success} whether the call was rejected or not
CompileUpdateRules(p) ==
  /\ compiles[p].pc = "updateDynamicRules"
  /\ dynamicRules' = UpdateDynamicRules(dynamicRules, compiles[p].existing, compiles[p].rules)
  /\ lastCompiled' = lastCompiled
  /\ compiles' = [compiles EXCEPT ![p] = NoCompile]
  /\ response' = IF p = "message"
                 THEN Success(compiles[p].type, compiles[p].arg, dynamicRules', timerCache,
                              {"updateBlockingRules"})
                 ELSE NoResponse
  /\ reload' = NoReload
  /\ failed' = FALSE
  /\ UNCHANGED <<now, tz, currentSession, isUserIdle, notificationTracker, websiteActivity,
                 dailyActivity, notifications, activeTicks, everIdle, sessions, opening,
                 timerCache, websiteTimers, blockedWebsites, nextBlockedId, settings,
                 recording, checks, flushVars, hostVars>>

\* -------------------- saveCurrentSession, one storage request at a time
\* Storage serves the requests in the order they were made, after any delay.
\* A handler runs from the answer to its request up to its next request
\* without interruption. st is the engine record with the handler's own
\* record f; waits says that the handler has made a request. A date or a
\* domain that is null is no valid key: the request throws (DataError).
Running(f) ==
  [cs |-> currentSession, wa |-> websiteActivity, daily |-> dailyActivity,
   rules |-> dynamicRules, tracker |-> notificationTracker, reload |-> NoReload, failed |-> FALSE,
   opened |-> FALSE, f |-> f, waits |-> FALSE]

Await(st, pc) == [st EXCEPT !.f.pc = pc, !.waits = TRUE]

\* what the caller does when saveCurrentSession has returned: nothing (the
\* alarm), or the rest of startTracking (377-395); the flush stopTracking
\* starts at that same instant (405) finds nothing to save
AfterFlush(p, st) ==
  IF p = "alarm" THEN [st EXCEPT !.f = NoFlush]
  ELSE IF IsInternalPage(st.f.url) \/ IsNewTabPage(st.f.url)
       THEN [st EXCEPT !.cs = EmptySession, !.f = NoFlush]
       ELSE [st EXCEPT !.cs = [tabId |-> st.f.tabId, domain |-> ExtractDomain(st.f.url),
                               startTime |-> now, isNewVisit |-> TRUE,
                               sessionDate |-> Today(now)],
                       !.opened = TRUE,
                       !.f = NoFlush]

\* line 265
FlushEnd(p, st) == AfterFlush(p, [st EXCEPT !.cs.startTime = now])

\* lines 223-229
NormalBegin(p, st) ==
  LET timeSpent == (now - st.cs.startTime) \div TicksPerSec
  IN IF timeSpent < 1 THEN AfterFlush(p, st)
     ELSE IF st.cs.domain = NoDomain THEN FlushEnd(p, [st EXCEPT !.failed = TRUE])
     ELSE Await([st EXCEPT !.f.domain = st.cs.domain, !.f.key = st.f.today,
                           !.f.timeSpent = timeSpent], "get")

\* lines 212-220; updateBlockingRules is taken as one request
RolloverReset(p, st) ==
  Await([st EXCEPT !.cs.startTime = st.f.midnight, !.cs.sessionDate = st.f.today,
                   !.cs.isNewVisit = TRUE, !.tracker = {}], "rules")

\* lines 154-183
FlushBegin(p, st) ==
  IF isUserIdle \/ st.cs.domain = NoDomain \/ st.cs.startTime = 0 THEN AfterFlush(p, st)
  ELSE LET today == Today(now)
           st1 == [st EXCEPT !.f.today = today, !.f.midnight = MidnightOf(today, tz),
                             !.f.began = [date |-> st.cs.sessionDate, domain |-> st.cs.domain]]
           timeUntilMidnight == (st1.f.midnight - st.cs.startTime) \div TicksPerSec
       IN IF st.cs.sessionDate # 0 /\ st.cs.sessionDate # today
          THEN IF timeUntilMidnight > 0
               THEN Await([st1 EXCEPT !.f.domain = st.cs.domain, !.f.key = st.cs.sessionDate,
                                      !.f.timeSpent = timeUntilMidnight], "prevGet")
               ELSE RolloverReset(p, st1)
          ELSE NormalBegin(p, st1)

\* the handler's run after storage has answered its request
Served(p, st) ==
  LET f == st.f
      cs == st.cs
  IN CASE f.pc = "prevGet" ->    \* 183-192
            LET existing == GetWebsiteActivity(st.wa, f.key, f.domain)
                activity == [date |-> cs.sessionDate, domain |-> f.domain,
                             timeSpent |-> existing.timeSpent + f.timeSpent,
                             visitCount |-> existing.visitCount + Flag(cs.isNewVisit)]
            IN IF activity.date = 0 THEN RolloverReset(p, [st EXCEPT !.failed = TRUE])
               ELSE Await([st EXCEPT !.f.activity = activity], "prevPut")
       [] f.pc = "prevPut" ->    \* 192-195
            Await([st EXCEPT !.wa = SaveWebsiteActivity(st.wa, f.activity),
                             !.f.key = cs.sessionDate], "prevGetAll")
       [] f.pc = "prevGetAll" -> \* 195-202; getAll(null) answers with every row
            LET dailyActivities == IF f.key = 0 THEN st.wa
                                   ELSE GetWebsiteActivitiesForDate(st.wa, f.key)
                daily == [date |-> cs.sessionDate,
                          totalTime |-> SumTimeSpent(dailyActivities),
                          websiteCount |-> Cardinality(dailyActivities)]
            IN IF daily.date = 0 THEN RolloverReset(p, [st EXCEPT !.failed = TRUE])
               ELSE Await([st EXCEPT !.f.daily = daily], "prevSaveDaily")
       [] f.pc = "prevSaveDaily" ->
            RolloverReset(p, [st EXCEPT !.daily = SaveDailyActivity(st.daily, f.daily)])
       [] f.pc = "rules" ->      \* 220-229
            NormalBegin(p, [st EXCEPT !.rules = UpdateBlockingRules(blockedWebsites,
                                                                    websiteTimers, st.wa, now)])
       [] f.pc = "get" ->        \* 229-238
            LET existing == GetWebsiteActivity(st.wa, f.key, f.domain)
                activity == [date |-> f.today, domain |-> f.domain,
                             timeSpent |-> existing.timeSpent + f.timeSpent,
                             visitCount |-> existing.visitCount + Flag(cs.isNewVisit)]
            IN Await([st EXCEPT !.f.activity = activity], "put")
       [] f.pc = "put" ->        \* 238-244
            Await([st EXCEPT !.wa = SaveWebsiteActivity(st.wa, f.activity),
                             !.cs.isNewVisit = FALSE], "getAll")
       [] f.pc = "getAll" ->     \* 244-248
            Await([st EXCEPT !.f.daily = DailyTotals(st.wa, f.today)], "saveDaily")
       [] f.pc = "saveDaily" ->  \* 248-265
            LET st1 == [st EXCEPT !.daily = SaveDailyActivity(st.daily, f.daily)]
            IN FlushEnd(p, CheckTimerLimit(st1, f.domain, f.activity.timeSpent, now, timerCache,
                                           blockedWebsites, websiteTimers, TRUE))

CommitFlush(p, st, pending) ==
  /\ Commit(st)
  /\ flushes' = [flushes EXCEPT ![p] = st.f]
  /\ queue' = IF st.waits THEN Append(pending, p) ELSE pending
  /\ UNCHANGED <<now, tz, isUserIdle, notifications, activeTicks, everIdle>>
  /\ UNCHANGED <<timerCache, websiteTimers, blockedWebsites, nextBlockedId, settings, recording,
                 checks, compileVars, hostVars>>

\* chrome.alarms.onAlarm, "saveActivity" (503-504), up to its first request
AlarmSaveActivityStart ==
  /\ flushes["alarm"].pc = "idle"
  /\ CommitFlush("alarm", FlushBegin("alarm", Running(NoFlush)), queue)

\* chrome.tabs.onActivated (436-445), up to its first request
TabActivatedStart ==
  \E tabId \in FrontTabIds, url \in Urls :
    /\ flushes["tab"].pc = "idle"
    /\ CommitFlush("tab",
                   IF url # <<>>
                   THEN FlushBegin("tab", Running([NoFlush EXCEPT !.tabId = tabId, !.url = url]))
                   ELSE Running(NoFlush),
                   queue)

\* storage answers the oldest request
StorageServes ==
  /\ queue # <<>>
  /\ CommitFlush(Head(queue), Served(Head(queue), Running(flushes[Head(queue)])), Tail(queue))

\* ------------------------------------------ Dashboard.handleImport 104-143
\* the tables a backup file carries under "data"
ImportTables ==
  [websiteActivity : {{}, {[date |-> Today(StartNow), domain |-> <<"a">>, timeSpent |-> 1,
                            visitCount |-> 1]}},
   websiteTimers : {<<>>, <<[domain |-> <<"a">>, timeLimit |-> 2, enabled |-> TRUE]>>},
   blockedWebsites : {<<>>, <<[id |-> 1, urlPattern |-> <<"A">>]>>},
   settings : {NoSettings,
               [present |-> TRUE, reminderEnabled |-> TRUE, hasThresholds |-> TRUE,
                reminderThresholds |-> {1}, rows |-> 1]}]

\* a parsed backup file: the keys with a truthy value, and the tables
ImportDocs == [keys : SUBSET {"data", "version"}, data : ImportTables]

\* db.importAllData: the tables of the file replace the stored ones, table by
\* table
ImportAllData(doc) ==
  /\ websiteActivity' = doc.data.websiteActivity
  /\ dailyActivity' = {DailyTotals(doc.data.websiteActivity, r.date) :
                         r \in doc.data.websiteActivity}
  /\ websiteTimers' = doc.data.websiteTimers
  /\ blockedWebsites' = doc.data.blockedWebsites
  /\ nextBlockedId' = IF nextBlockedId > Len(doc.data.blockedWebsites) THEN nextBlockedId
                       ELSE Len(doc.data.blockedWebsites) + 1
  /\ settings' = doc.data.settings

\* variant: only the presence of "data" is tested
HandleImport_NoVersionCheck ==
  \E doc \in ImportDocs :
    /\ IF ~("data" \in doc.keys)
       THEN /\ response' = Failure("IMPORT", KeysArg(doc.keys), dynamicRules, timerCache)
            /\ UNCHANGED <<websiteActivity, dailyActivity, websiteTimers, blockedWebsites,
                           nextBlockedId, settings>>
       ELSE /\ ImportAllData(doc)
            /\ response' = Success("IMPORT", KeysArg(doc.keys), dynamicRules, timerCache,
                                   {"importAllData"})
    /\ reload' = NoReload
    /\ failed' = FALSE
    /\ UNCHANGED <<now, tz, currentSession, isUserIdle, notificationTracker, dynamicRules,
                   notifications, activeTicks, everIdle, sessions, opening, timerCache, recording,
                   asyncVars, hostVars>>

\* handleImport: the parsed file is tested (114-117) before db.importAllData
\* (121); the worker has no RELOAD_DATA case and answers it with an error
\* (623-624), so its cache and the installed rules stay as they were
HandleImport ==
  \E doc \in ImportDocs :
    /\ IF ~("data" \in doc.keys) \/ ~("version" \in doc.keys)
       THEN /\ response' = Failure("IMPORT", KeysArg(doc.keys), dynamicRules, timerCache)
            /\ UNCHANGED <<websiteActivity, dailyActivity, websiteTimers, blockedWebsites,
                           nextBlockedId, settings>>
       ELSE /\ ImportAllData(doc)
            /\ response' = Success("IMPORT", KeysArg(doc.keys), dynamicRules, timerCache,
                                   {"importAllData"})
    /\ reload' = NoReload
    /\ failed' = FALSE
    /\ UNCHANGED <<now, tz, currentSession, isUserIdle, notificationTracker, dynamicRules,
                   notifications, activeTicks, everIdle, sessions, opening, timerCache, recording,
                   asyncVars, hostVars>>

\* ------------------------------------------------------ the specifications
Tracker(fps) ==
  \/ Tick(MaxNow)
  \/ TabActivated(fps)
  \/ TabUpdated(fps)
  \/ TabRemoved(fps)
  \/ WindowFocusChanged(fps)
  \/ IdleStateChanged(fps)
  \/ AlarmSaveActivity(fps)
  \/ AlarmMidnightReset(fps)

\* storage never rejects
Next == Tracker({"none"})
Spec == Init /\ [][Next]_vars

\* storage may reject any operation of a flush
InitFail ==
  /\ now = StartNow
  /\ tz \in TZOffsets
  /\ recording = FALSE
  /\ InitEngine
NextFail == Tracker(FailPoints)
SpecFail == InitFail /\ [][NextFail]_vars

\* the control messages and the rule compiler, over one stretch of tracking on
\* a machine whose local time is UTC
InitRules ==
  /\ now = StartNow
  /\ tz = 0
  /\ recording = FALSE
  /\ InitEngine
NextRules ==
  \/ Tick(StartNow + RulesMaxTicks)
  \/ TabActivated({"none"})
  \/ AlarmSaveActivity({"none"})
  \/ AlarmUpdateRules
  \/ UpdateTimer
  \/ DeleteTimer
  \/ AddBlockedUrl
  \/ RemoveBlockedUrl
SpecRules == InitRules /\ [][NextRules]_vars

\* every control message that changes storage, over each activity a day can
\* have left in storage (a row per visited domain, its DailyActivity derived)
ActivitySnapshots ==
  {{[date |-> Today(StartNow), domain |-> d, timeSpent |-> f[d], visitCount |-> 1] :
      d \in {x \in Domains : f[x] > 0}} : f \in [Domains -> 0..2]}

InitMessages ==
  /\ now = StartNow
  /\ tz = 0
  /\ recording = FALSE
  /\ websiteActivity \in ActivitySnapshots
  /\ dailyActivity = IF websiteActivity = {} THEN {}
                     ELSE {DailyTotals(websiteActivity, Today(StartNow))}
  /\ InitRest
NextMessages ==
  \/ UpdateTimer
  \/ DeleteTimer
  \/ AddBlockedUrl
  \/ RemoveBlockedUrl
  \/ UpdateSettings
  \/ AlarmUpdateRules
SpecMessages == InitMessages /\ [][NextMessages]_vars

\* the reminders over one stretch of tracking, every handler run to its end
NextNotify ==
  \/ Tick(StartNow + RulesMaxTicks)
  \/ TabActivated({"none"})
  \/ AlarmSaveActivity({"none"})
  \/ AlarmCheckNotifications
  \/ UpdateSettings
SpecNotify == InitRules /\ [][NextNotify]_vars

\* the periodic check and UPDATE_SETTINGS, each waiting on the notifications
\* it creates, over each activity a day can have left in storage
NextOverlap ==
  \/ AlarmCheckStart
  \/ UpdateSettingsStart
  \/ \E p \in CheckIds : CheckResume(p)
SpecOverlap == InitMessages /\ [][NextOverlap]_vars

\* the timer messages with any number as timeLimit, over each activity a day
\* can have left in storage
AnyTimerLimits == {0 - 1, 0} \cup TimerLimits
NextTimers ==
  \/ UpdateTimerOf(AnyTimerLimits)
  \/ DeleteTimer
  \/ AlarmUpdateRules
SpecTimers == InitMessages /\ [][NextTimers]_vars

\* timers over a change of day, on a machine whose local time is UTC
NextDays ==
  \/ Tick(MaxNow)
  \/ TabActivated({"none"})
  \/ AlarmSaveActivity({"none"})
  \/ AlarmMidnightReset({"none"})
  \/ AlarmUpdateRules
  \/ UpdateTimer
  \/ DeleteTimer
SpecDays == InitRules /\ [][NextDays]_vars

\* flushes that overlap while they wait on storage, over a change of day, on
\* a machine whose local time is UTC
InitFlushes ==
  /\ now = DayTicks
  /\ tz = 0
  /\ recording = FALSE
  /\ InitEngine
NextFlushes ==
  \/ Tick(2 * DayTicks)
  \/ AlarmSaveActivityStart
  \/ TabActivatedStart
  \/ StorageServes
  \/ IdleStateChanged({"none"})
SpecFlushes == InitFlushes /\ [][NextFlushes]_vars

\* imports of backup files, between messages that fill the tables
NextImport ==
  \/ HandleImport
  \/ UpdateTimer
  \/ AddBlockedUrl
  \/ AlarmUpdateRules
SpecImport == InitMessages /\ [][NextImport]_vars

\* a Session over a sleep of the machine that may last several days, on a
\* machine whose local time is UTC
SleepMaxNow == 3 * DayTicks + 1
PeriodMaxNow == StartNow + 3 * SaveActivityTicks
NextSleep ==
  \/ Tick(SleepMaxNow)
  \/ Sleep(SleepMaxNow)
  \/ TabActivated({"none"})
  \/ AlarmSaveActivity({"none"})
SpecSleep == InitRules /\ [][NextSleep]_vars

\* a Session under the periodic flush alarm, which the host fires whenever it
\* is due: the clock does not pass an alarm that has not fired
NextPeriod ==
  \/ Tick(IF SaveActivityDue < PeriodMaxNow THEN SaveActivityDue ELSE PeriodMaxNow)
  \/ TabActivated({"none"})
  \/ TabRemoved({"none"})
  \/ AlarmSaveActivityOnTime
SpecPeriod == InitRules /\ [][NextPeriod]_vars

\* overlapping flushes over the last second of a day, up to midnight, between
\* the messages that write the timers and the settings, on a machine whose
\* local time is UTC
InitStores ==
  /\ now = 2 * DayTicks - TicksPerSec - 1
  /\ tz = 0
  /\ recording = FALSE
  /\ InitEngine
NextStores ==
  \/ Tick(2 * DayTicks)
  \/ AlarmSaveActivityStart
  \/ TabActivatedStart
  \/ StorageServes
  \/ UpdateTimer
  \/ DeleteTimer
  \/ UpdateSettings
SpecStores == InitStores /\ [][NextStores]_vars

\* compilations that overlap while they wait on the rules API: the periodic
\* alarm and the block messages, over each activity a day can have left in
\* storage
NextCompile ==
  \/ AlarmUpdateRulesStart
  \/ AddBlockedUrlStart
  \/ RemoveBlockedUrlStart
  \/ \E p \in CompileIds : CompileGetRules(p)
  \/ \E p \in CompileIds : CompileUpdateRules(p)
SpecCompile == InitMessages /\ [][NextCompile]_vars

\* the rules a browser session can have left installed (dynamic rules outlive
\* the worker): none, a block entry's rule, a timer's rule
DayTimer == [domain |-> <<"a">>, timeLimit |-> 2, enabled |-> TRUE]
LeftRules ==
  {<<>>,
   <<ParentalRule([id |-> 1, urlPattern |-> <<"A">>], 1)>>,
   <<TimerRule(DayTimer, 1)>>}

\* the worker loaded over the storage and the rules of an earlier session,
\* its first compilation (39) failed or not yet run
InitHeal ==
  /\ now = StartNow
  /\ tz = 0
  /\ recording = FALSE
  /\ websiteActivity \in ActivitySnapshots
  /\ dailyActivity = IF websiteActivity = {} THEN {}
                     ELSE {DailyTotals(websiteActivity, Today(StartNow))}
  /\ websiteTimers \in {<<>>, <<DayTimer>>}
  /\ timerCache = LoadTimerCache(websiteTimers)
  /\ blockedWebsites = <<>>
  /\ nextBlockedId = 1
  /\ settings = NoSettings
  /\ dynamicRules \in LeftRules
  /\ InitWorker
  /\ opening = NoOpening

\* the updateRules alarm keeps firing, and the API answers its calls
AlarmKeepsFiring ==
  /\ WF_vars(AlarmUpdateRulesStart)
  /\ WF_vars(CompileGetRules("alarm"))
  /\ WF_vars(CompileUpdateRules("alarm"))
SpecHeal == InitHeal /\ [][NextCompile]_vars /\ AlarmKeepsFiring

\* tab switches and periodic flushes that overlap while they wait on storage,
\* from before a midnight to after it, on a machine whose local time is UTC;
\* the opening of each Session is kept
InitSwitch ==
  /\ now = StartNow
  /\ tz = 0
  /\ recording = FALSE
  /\ websiteActivity = {}
  /\ dailyActivity = {}
  /\ InitPolicy
  /\ InitWorker
  /\ opening = [NoOpening EXCEPT !.kept = TRUE]
NextSwitch ==
  \/ Tick(MaxNow)
  \/ AlarmSaveActivityStart
  \/ TabActivatedStart
  \/ StorageServes
SpecSwitch == InitSwitch /\ [][NextSwitch]_vars

\* the worker loaded over the storage and the rules of an earlier session:
\* a timer on one domain, today's row of that domain below, at or above the
\* limit, a block entry, reminders at one second, and a timer cache that is
\* loaded or was left empty by an imported backup
RemindAtOne ==
  [present |-> TRUE, reminderEnabled |-> TRUE, hasThresholds |-> TRUE,
   reminderThresholds |-> {1}, rows |-> 1]
InitSnapshot ==
  /\ now = StartNow
  /\ tz = 0
  /\ recording = FALSE
  /\ websiteActivity \in {a \in ActivitySnapshots : \A r \in a : r.domain = DayTimer.domain}
  /\ dailyActivity = IF websiteActivity = {} THEN {}
                     ELSE {DailyTotals(websiteActivity, Today(StartNow))}
  /\ websiteTimers = <<DayTimer>>
  /\ timerCache \in {{}, LoadTimerCache(websiteTimers)}
  /\ blockedWebsites = <<[id |-> 1, urlPattern |-> <<"A">>]>>
  /\ nextBlockedId = 2
  /\ settings = RemindAtOne
  /\ dynamicRules \in LeftRules
  /\ InitWorker
  /\ opening = NoOpening

\* the updateRules alarm compiling again and again while tabs, the idle
\* signal, timer messages and the notification check change what the worker
\* holds and what is stored, every handler run to its end
NextSnapshot ==
  \/ TabActivated({"none"})
  \/ IdleStateChanged({"none"})
  \/ UpdateTimer
  \/ AlarmCheckNotifications
  \/ AlarmUpdateRulesObserved
SpecSnapshot == InitSnapshot /\ [][NextSnapshot]_vars

\* the reminders over a change of day on machines of every UTC offset, with
\* the alarms of the local midnight fired by the host at the instant they are
\* due
LocalMidnight(t) == (t + tz * TicksPerSec) % DayTicks = 0

InitMidnight ==
  /\ now = StartNow
  /\ tz \in TZOffsets
  /\ recording = FALSE
  /\ websiteActivity = {}
  /\ dailyActivity = {}
  /\ timerCache = {}
  /\ websiteTimers = <<>>
  /\ blockedWebsites = <<>>
  /\ nextBlockedId = 1
  /\ settings = RemindAtOne
  /\ dynamicRules = <<>>
  /\ InitWorker
  /\ opening = NoOpening

\* the clock reaches the local midnight and the alarms set for it fire:
\* "resetNotifications" (509-510, created at 644-661) clears the tracker and
\* "midnightReset" (511-519, created at 48-51) flushes, clears the tracker and
\* recompiles the rules
MidnightAlarmsOnTime ==
  /\ now < MaxNow
  /\ LocalMidnight(now + 1)
  /\ now' = now + 1
  /\ LET st == SaveCurrentSession(Engine, now + 1, tz, isUserIdle, timerCache, blockedWebsites,
                                  websiteTimers,
                                  [prevFail |-> "none", curFail |-> "none", tabShows |-> TRUE])
     IN Commit([st EXCEPT !.tracker = {},
                          !.rules = UpdateBlockingRules(blockedWebsites, websiteTimers,
                                                        st.wa, now + 1)])
  /\ UNCHANGED <<tz, isUserIdle, notifications, activeTicks, everIdle>>
  /\ UNCHANGED policyVars

\* the clock between the local midnights
TickBetween ==
  /\ ~LocalMidnight(now + 1)
  /\ Tick(MaxNow)

NextMidnight ==
  \/ TickBetween
  \/ MidnightAlarmsOnTime
  \/ TabActivated({"none"})
  \/ AlarmSaveActivity({"none"})
  \/ AlarmCheckNotifications
SpecMidnight == InitMidnight /\ [][NextMidnight]_vars

\* the browser ends the service worker and loads it again on the next event:
\* the module state is as declared (6-30: empty Session, not idle, empty
\* timer cache and notification tracker), then initialize runs (35-61):
\* loadTimerCache, updateBlockingRules and checkActiveTab (420-431); restarts
\* are followed while no pair has been notified MaxNotified times
WorkerRestart ==
  \E tabId \in FrontTabIds, url \in Urls, env \in Envs({"none"}) :
    LET cache == LoadTimerCache(websiteTimers)
        fresh == [Engine EXCEPT !.cs = EmptySession, !.tracker = {},
                                !.rules = UpdateBlockingRules(blockedWebsites, websiteTimers,
                                                              websiteActivity, now)]
    IN /\ \A k \in DOMAIN notifications : notifications[k] < MaxNotified
       /\ isUserIdle' = FALSE
       /\ timerCache' = cache
       /\ Commit(IF url # <<>>
                 THEN StartTracking(fresh, tabId, url, now, tz, FALSE, cache, blockedWebsites,
                                    websiteTimers, env)
                 ELSE StopTracking(fresh, now, tz, FALSE, cache, blockedWebsites,
                                   websiteTimers, env))
       /\ UNCHANGED <<now, tz, notifications, activeTicks, everIdle, websiteTimers,
                      blockedWebsites, nextBlockedId, settings, recording, asyncVars, hostVars>>

\* the reminders over one stretch of tracking within a day, with restarts of
\* the worker, every handler run to its end
NextRestart ==
  \/ Tick(StartNow + RulesMaxTicks)
  \/ TabActivated({"none"})
  \/ AlarmSaveActivity({"none"})
  \/ AlarmCheckNotifications
  \/ UpdateSettings
  \/ WorkerRestart
SpecRestart == InitRules /\ [][NextRestart]_vars

\* ================================================================ claims
TimeOn(wa, date, domain) == GetWebsiteActivity(wa, date, domain).timeSpent
VisitsOn(wa, date, domain) == GetWebsiteActivity(wa, date, domain).visitCount
DatesStored == {r.date : r \in websiteActivity} \cup {r.date : r \in dailyActivity}

C2_ExactSeconds ==
  (/\ ~everIdle
   /\ Today(now) = Today(StartNow)
   /\ currentSession.domain = NoDomain
   /\ sessions = 1)
    => SumTimeSpent(websiteActivity) = activeTicks \div TicksPerSec

\* C3: the first flush of a Session started s whole seconds before the day
\* change, run t >= 1 whole seconds after it, adds s seconds and one visit to
\* the old day's row and t seconds and one visit to the new day's row.
C3_MidnightSplit ==
  [][LET today == Today(now)
         d == currentSession.domain
         s == today * DayTicks - currentSession.startTime
         t == now - today * DayTicks
     IN (/\ AlarmSaveActivity({"none"})
         /\ ~isUserIdle /\ ~everIdle
         /\ d \in Domains
         /\ currentSession.isNewVisit
         /\ currentSession.sessionDate = today - 1
         /\ s > 0 /\ s % TicksPerSec = 0
         /\ t >= TicksPerSec /\ t % TicksPerSec = 0)
        => /\ TimeOn(websiteActivity', today - 1, d)
                = TimeOn(websiteActivity, today - 1, d) + s \div TicksPerSec
           /\ TimeOn(websiteActivity', today, d)
                = TimeOn(websiteActivity, today, d) + t \div TicksPerSec
           /\ VisitsOn(websiteActivity', today - 1, d)
                = VisitsOn(websiteActivity, today - 1, d) + 1
           /\ VisitsOn(websiteActivity', today, d)
                = VisitsOn(websiteActivity, today, d) + 1]_vars

\* C4: an idle or locked signal that arrives during an active Session adds
\* the whole seconds elapsed since the last flush to the domain's row.
C4_IdleFlushes ==
  [][LET today == Today(now)
         d == currentSession.domain
         elapsed == (now - currentSession.startTime) \div TicksPerSec
     IN (/\ ~isUserIdle /\ isUserIdle'
         /\ d \in Domains
         /\ currentSession.sessionDate = today
         /\ elapsed >= 1)
        => TimeOn(websiteActivity', today, d) = TimeOn(websiteActivity, today, d) + elapsed]_vars

\* C5: no time between an idle signal and the next active signal is added to
\* a row: the seconds stored never exceed the time a Session was active and
\* not idle (on a machine whose local time is UTC, where the rollover adds no
\* time of its own).
C5_NoIdleTime ==
  tz = 0 => TicksPerSec * SumTimeSpent(websiteActivity) <= activeTicks

\* C6: a periodic flush in which a storage write fails leaves startTimestamp,
\* isNewVisit and sessionDay of the Session unchanged.
C6_FailureKeepsSession ==
  [][(AlarmSaveActivity(FailPoints) /\ failed') => currentSession' = currentSession]_vars

\* the URLs navigations are tried with
TestUrls == Urls \cup {UrlOf(d) : d \in Domains} \cup {<<"https://", "b", "/", "A">>}

TodayActivities == {r \in websiteActivity : r.date = Today(now)}
Indices(q) == 1..Len(q)
StarFilter(text) == <<"*">> \o text \o <<"*">>

\* C7: for every snapshot the compiled set holds one rule per block entry, one
\* rule per enabled timer whose domain's timeSpent today has reached its
\* limit, and nothing else.
C7_CompiledExactly ==
  LET rules == CompileRules(blockedWebsites, websiteTimers, TodayActivities)
      Due(i) ==
        /\ websiteTimers[i].enabled
        /\ \E a \in TodayActivities :
             a.domain = websiteTimers[i].domain /\ a.timeSpent >= websiteTimers[i].timeLimit
      SameFold(i) ==
        {k \in Indices(blockedWebsites) :
           ToLower(blockedWebsites[k].urlPattern) = ToLower(blockedWebsites[i].urlPattern)}
      ParentalFor(i) ==
        {j \in Indices(rules) :
           /\ rules[j].reason = "parental"
           /\ rules[j].urlFilter = StarFilter(ToLower(blockedWebsites[i].urlPattern))}
      TimerFor(i) ==
        {j \in Indices(rules) :
           /\ rules[j].reason = "timer"
           /\ rules[j].limit = websiteTimers[i].timeLimit
           /\ rules[j].urlFilter = StarFilter(websiteTimers[i].domain)}
  IN /\ \A i \in Indices(blockedWebsites) :
          Cardinality(ParentalFor(i)) = Cardinality(SameFold(i))
     /\ \A i \in Indices(websiteTimers) :
          Cardinality(TimerFor(i)) = IF Due(i) THEN 1 ELSE 0
     /\ Len(rules) = Len(blockedWebsites) + Cardinality({i \in Indices(websiteTimers) : Due(i)})

C7_Witness ==
  /\ Len(blockedWebsites) >= 1
  /\ Len(websiteTimers) = 2
  /\ \E i, k \in Indices(websiteTimers) :
       /\ websiteTimers[i].enabled
       /\ TimeOn(TodayActivities, Today(now), websiteTimers[i].domain)
            >= websiteTimers[i].timeLimit
       /\ websiteTimers[k].enabled
       /\ TimeOn(TodayActivities, Today(now), websiteTimers[k].domain)
            < websiteTimers[k].timeLimit
  /\ Len(CompileRules(blockedWebsites, websiteTimers, TodayActivities))
       = Len(blockedWebsites) + 1

MutatingMessages ==
  {"UPDATE_TIMER", "DELETE_TIMER", "ADD_BLOCKED_URL", "REMOVE_BLOCKED_URL", "UPDATE_SETTINGS"}

ReachedToday(thresholds) ==
  {k \in Domains \X thresholds : TimeOn(TodayActivities, Today(now), k[1]) >= k[2]}
RemindersOn(stg) == stg.present /\ stg.reminderEnabled /\ stg.hasThresholds

\* C11: each (domain, threshold) pair is notified at most once, also when the
\* periodic check and the check of UPDATE_SETTINGS overlap.
C11_OncePerThreshold ==
  \A k \in Domains \X Thresholds : notifications[k] <= 1

C14_SleepGapNotCounted ==
  [][LET today == Today(now)
         d == currentSession.domain
         midnight == today * DayTicks
     IN (/\ AlarmSaveActivity({"none"})
         /\ ~isUserIdle
         /\ d \in Domains
         /\ currentSession.sessionDate = today - 1
         /\ currentSession.startTime <= slept.from
         /\ slept.from <= midnight
         /\ slept.to = now)
        => /\ TimeOn(websiteActivity', today - 1, d)
                = TimeOn(websiteActivity, today - 1, d)
                    + (midnight - currentSession.startTime) \div TicksPerSec
           /\ TimeOn(websiteActivity', today, d) = TimeOn(websiteActivity, today, d)]_vars

\* C15: every stored timeSpent and every stored totalTime lies between 0 and
\* the seconds of one calendar day.
C15_WithinOneDay ==
  /\ \A r \in websiteActivity : r.timeSpent >= 0 /\ r.timeSpent <= DaySecs
  /\ \A r \in dailyActivity : r.totalTime >= 0 /\ r.totalTime <= DaySecs

\* C16: an UPDATE_TIMER message whose timeLimit is not positive is answered
\* with an error and leaves the stored timers, the timer cache and the
\* installed rules as they were; no stored timer has a timeLimit <= 0.
C16_NonPositiveLimitRejected ==
  [][/\ (response'.type = "UPDATE_TIMER" /\ response'.arg.timer.timeLimit <= 0)
          => /\ ~response'.success
             /\ websiteTimers' = websiteTimers
             /\ timerCache' = timerCache
             /\ dynamicRules' = dynamicRules
     /\ \A i \in Indices(websiteTimers') : websiteTimers'[i].timeLimit > 0]_vars

\* C17: an ADD_BLOCKED_URL message whose pattern the block list already holds
\* is answered with an error; the list and the installed rules stay as they
\* were, and the list holds the pattern exactly once.
C17_DuplicateRejected ==
  [][\A p \in Patterns :
       (/\ response'.type = "ADD_BLOCKED_URL"
        /\ response'.arg.text = p
        /\ \E i \in Indices(blockedWebsites) : blockedWebsites[i].urlPattern = p)
         => /\ ~response'.success
            /\ blockedWebsites' = blockedWebsites
            /\ dynamicRules' = dynamicRules
            /\ Cardinality({i \in Indices(blockedWebsites') :
                              blockedWebsites'[i].urlPattern = p}) = 1]_vars

C17_Witness ==
  /\ response.type = "ADD_BLOCKED_URL"
  /\ ~response.success
  /\ \E i \in Indices(blockedWebsites) : blockedWebsites[i].urlPattern = response.arg.text
  /\ Len(blockedWebsites) = 2
  /\ Len(dynamicRules) >= 2

\* C18: the import of a backup file that lacks "version" or lacks "data" is
\* answered with an error and leaves every table as it was.
C18_InvalidImportRejected ==
  [][(/\ response'.type = "IMPORT"
      /\ ~({"data", "version"} \subseteq response'.arg.keys))
       => /\ ~response'.success
          /\ websiteActivity' = websiteActivity
          /\ dailyActivity' = dailyActivity
          /\ websiteTimers' = websiteTimers
          /\ blockedWebsites' = blockedWebsites
          /\ settings' = settings]_vars

C18_Witness ==
  /\ response.type = "IMPORT"
  /\ ~response.success
  /\ response.arg.keys = {"data"}
  /\ websiteActivity # {}
  /\ websiteTimers # <<>>
  /\ blockedWebsites # <<>>

C20_RowsNeverDecrease ==
  [][\A r \in websiteActivity :
       /\ TimeOn(websiteActivity', r.date, r.domain) >= r.timeSpent
       /\ VisitsOn(websiteActivity', r.date, r.domain) >= r.visitCount]_vars

\* C21: when the flushes of the alarm and of the tab events overlap while they
\* wait on storage, every second of wall-clock time is added to a row at most
\* once: once all of them have completed, the seconds stored do not exceed the
\* time that has elapsed.
C21_NoIntervalTwice ==
  (\A p \in FlushIds : flushes[p].pc = "idle")
    => TicksPerSec * SumTimeSpent(websiteActivity) <= now - DayTicks

\* C22: while a Session is active and the user is not idle, the time since
\* startTime is less than one period of the flush alarm, the alarm firing
\* whenever it is due (a state in which the alarm is due and has not run yet
\* is left out).
C22_UnflushedBelowInterval ==
  (currentSession.domain # NoDomain /\ ~isUserIdle /\ now < SaveActivityDue)
    => now - currentSession.startTime < SaveActivityTicks

\* C23: in every reachable state storage holds at most one WebsiteActivity row
\* per (date, domain), at most one DailyActivity row per date, at most one
\* WebsiteTimer per domain and at most one Settings row, also while flushes
\* overlap between control messages.
C23_OneRowPerKey ==
  /\ \A r1, r2 \in websiteActivity :
       (r1.date = r2.date /\ r1.domain = r2.domain) => r1 = r2
  /\ \A r1, r2 \in dailyActivity : r1.date = r2.date => r1 = r2
  /\ \A i, j \in Indices(websiteTimers) :
       websiteTimers[i].domain = websiteTimers[j].domain => i = j
  /\ settings.rows <= 1

C23_Witness ==
  /\ Cardinality(websiteActivity) = 2
  /\ \E r \in websiteActivity : r.timeSpent >= 2 /\ r.visitCount >= 2
  /\ Cardinality(dailyActivity) = 1
  /\ Len(websiteTimers) = 2
  /\ settings.rows = 1
  /\ response.type = "UPDATE_SETTINGS"
  /\ Today(now) > Today(StartNow)
  /\ queue # <<>>

\* C24: when a compilation completes, the installed rules are exactly the
\* rules it has compiled, and no two installed rules share an id, also when
\* the compilations of the alarm and of a block message overlap.
C24_InstalledIsCompiled ==
  [][\A p \in CompileIds :
       (compiles[p].pc = "updateDynamicRules" /\ compiles'[p].pc = "idle")
         => /\ dynamicRules' = compiles[p].rules
            /\ Cardinality(RuleIds(dynamicRules')) = Len(dynamicRules')]_vars

\* C25: once the timers, the block entries and today's rows have stopped
\* changing, and with the updateRules alarm firing again and again, the rules
\* installed come to equal the compilation of what is stored and stay equal,
\* whatever installation was left behind.
C25_RulesHeal ==
  <>[](dynamicRules =
         UpdateBlockingRules(blockedWebsites, websiteTimers, websiteActivity, now))

C25_Witness ==
  LET compiled == UpdateBlockingRules(blockedWebsites, websiteTimers, websiteActivity, now)
  IN /\ dynamicRules # compiled
     /\ dynamicRules # <<>>
     /\ compiles["message"].pc = "idle"
     /\ compiles["alarm"].pc = "updateDynamicRules"
     /\ compiles["alarm"].rules = compiled
     /\ compiles["alarm"].existing = RuleIds(dynamicRules)
     /\ \E j \in Indices(compiled) : compiled[j].reason = "parental"
     /\ \E j \in Indices(compiled) : compiled[j].reason = "timer"

C27_CacheIsStorage ==
  LET Stored(d) == {websiteTimers[i] : i \in {k \in Indices(websiteTimers) :
                                                websiteTimers[k].domain = d}}
  IN /\ timerCache = {websiteTimers[i] : i \in Indices(websiteTimers)}
     /\ \A d \in Domains :
          /\ Cardinality(Stored(d)) <= 1
          /\ Stored(d) = {} => TimerOf(timerCache, d).domain = NoDomain
          /\ \A tm \in Stored(d) : TimerOf(timerCache, d) = tm

C27_Witness ==
  /\ response.type = "DELETE_TIMER"
  /\ response.success
  /\ Cardinality(timerCache) = 1
  /\ \E tm \in timerCache : ~tm.enabled /\ tm.domain # response.arg.text
  /\ \E r \in websiteActivity : r.domain = response.arg.text /\ r.timeSpent >= 2

C29_WritesCapturedKey ==
  [][(queue # <<>> /\ websiteActivity' # websiteActivity) =>
       LET f == flushes[Head(queue)]
       IN \A r \in websiteActivity' \ websiteActivity :
            /\ r.domain = f.began.domain
            /\ r.date = IF f.pc = "prevPut" THEN f.began.date ELSE f.today]_vars

\* the URLs startTracking does not track: browser and extension pages, the
\* new-tab pages and the empty URL
UntrackedUrls ==
  {<<"chrome://", "newtab">>, <<"chrome://", "a">>, <<"chrome-extension://", "a", "/">>,
   <<"edge://", "newtab">>, <<"about:", "blank">>, <<"about:", "newtab">>, <<>>}

\* C30: in every state a run reaches, startTracking with a browser page, a
\* new-tab page or the empty URL leaves the stored rows as one flush of the
\* previous Session leaves them (a Session of today that is not idle has its
\* whole seconds since its start added to its row), leaves the Session empty
\* (no tab, no domain, no start time, no date) and opens no Session; and no
\* stored row carries the host of such a URL or no domain.
C30_UntrackedUrlStops ==
  /\ \A tabId \in FrontTabIds, url \in UntrackedUrls, env \in Envs({"none"}) :
       LET st == Start(Engine, tabId, url, env)
           flushed == Save(Engine, env)
           d == currentSession.domain
           secs == (now - currentSession.startTime) \div TicksPerSec
       IN /\ IsInternalPage(url) \/ IsNewTabPage(url)
          /\ st.cs = EmptySession
          /\ ~st.opened
          /\ st.wa = flushed.wa
          /\ st.daily = flushed.daily
          /\ (/\ ~isUserIdle
              /\ d # NoDomain
              /\ currentSession.sessionDate = Today(now)
              /\ secs >= 1)
             => TimeOn(st.wa, Today(now), d) = TimeOn(websiteActivity, Today(now), d) + secs
  /\ \A r \in websiteActivity :
       /\ r.domain # NoDomain
       /\ \A url \in UntrackedUrls : r.domain # ExtractDomain(url)

C30_Witness ==
  LET st == Start(Engine, 1, <<"chrome://", "newtab">>,
                  [prevFail |-> "none", curFail |-> "none", tabShows |-> TRUE])
  IN /\ currentSession.domain # NoDomain
     /\ TimeOn(websiteActivity, Today(now), currentSession.domain) >= 1
     /\ TimeOn(st.wa, Today(now), currentSession.domain)
          > TimeOn(websiteActivity, Today(now), currentSession.domain)
     /\ st.cs = EmptySession

\* C31: a Session is opened only when the flush startTracking awaits has
\* returned, with startTime the instant of opening, isNewVisit set and the
\* date of that day; and a flush that began while the Session was on another
\* domain never adds to today's row of the domain the Session is on now more
\* seconds than that Session has been open, so that nothing of the time before
\* the switch is credited to the domain switched to.
C31_SwitchCreditsPrevious ==
  [][/\ (opening' # opening) =>
          /\ opening'.at = now
          /\ currentSession' = [tabId |-> opening'.tabId, domain |-> opening'.domain,
                                startTime |-> now, isNewVisit |-> TRUE,
                                sessionDate |-> Today(now)]
          /\ flushes'["tab"].pc = "idle"
     /\ (/\ queue # <<>>
         /\ currentSession.domain # NoDomain
         /\ currentSession.domain = opening.domain
         /\ flushes[Head(queue)].began.domain # NoDomain
         /\ flushes[Head(queue)].began.domain # currentSession.domain)
        => (Today(opening.at) = Today(now)
            => (TimeOn(websiteActivity', Today(now), currentSession.domain)
                  - TimeOn(websiteActivity, Today(now), currentSession.domain)) * TicksPerSec
                 <= now - opening.at)]_vars

\* C32: while the Session opened last is the current one and the day has not
\* changed since it was opened, today's row of its domain counts at most one
\* visit more than at the opening, never fewer, and no visit more as long as
\* the row has gained no time.
C32_OneVisitPerSession ==
  LET d == currentSession.domain
      today == Today(now)
      grown == VisitsOn(websiteActivity, today, d) - opening.visitCount
  IN (/\ opening.at # 0
      /\ d # NoDomain
      /\ d = opening.domain
      /\ currentSession.tabId = opening.tabId
      /\ Today(opening.at) = today)
     => /\ grown \in {0, 1}
        /\ TimeOn(websiteActivity, today, d) = opening.timeSpent => grown = 0

\* C33: a notification check run in any state leaves in the tracker exactly
\* the (domain, threshold) pairs that today's rows have reached: none is left
\* from a day before, so that a threshold notified yesterday is notified
\* again once today's time reaches it.
C33_TrackerFreshEachDay ==
  CheckAndSendNotifications([tracker |-> notificationTracker, sent |-> notifications],
                            settings, websiteActivity, now).tracker
    = Reached(settings, websiteActivity, now)

\* C34: the empty Session carries no start time, no date and no flag, and a
\* Session opened less than a second ago on the day it still is carries the
\* start time, the date and the isNewVisit flag it was opened with: no flush
\* of its own can have written yet, so no flush changed them.
C34_FlushLeavesNewerSession ==
  /\ currentSession.domain = NoDomain => currentSession = EmptySession
  /\ (/\ opening.at # 0
      /\ currentSession.domain # NoDomain
      /\ currentSession.domain = opening.domain
      /\ currentSession.tabId = opening.tabId
      /\ now - opening.at < TicksPerSec
      /\ Today(opening.at) = Today(now))
     => /\ currentSession.startTime = opening.at
        /\ currentSession.isNewVisit
        /\ currentSession.sessionDate = Today(opening.at)

\* C35: in every handler that finds the Session's date different from today
\* and writes rows, the midnight the rollover uses is the instant at which the
\* date became today, and today's row of the Session's domain gains no more
\* seconds than have passed since that instant.
C35_RolloverSplitsAtDayChange ==
  [][LET today == Today(now)
         d == currentSession.domain
         grown == TimeOn(websiteActivity', today, d) - TimeOn(websiteActivity, today, d)
     IN (/\ now' = now
         /\ d # NoDomain
         /\ currentSession.sessionDate # 0
         /\ currentSession.sessionDate # today
         /\ websiteActivity' # websiteActivity)
        => /\ MidnightOf(today, tz) = today * DayTicks
           /\ grown * TicksPerSec <= now - today * DayTicks]_vars

\* C36: within one day no handler notifies a (domain, threshold) pair that
\* has been notified before, also when the worker has been restarted in
\* between.
C36_RestartNotifiesOnce ==
  [][\A k \in DOMAIN notifications :
       notifications'[k] # notifications[k] => notifications[k] = 0]_vars

\* the settings rows under which the reminders are off: no row, reminders
\* disabled, no thresholds stored or an empty list of thresholds
SilentSettings ==
  {stg \in [present : BOOLEAN, reminderEnabled : BOOLEAN, hasThresholds : BOOLEAN,
            reminderThresholds : SUBSET Thresholds, rows : {1}] :
     /\ ~stg.hasThresholds => stg.reminderThresholds = {}
     /\ ~stg.present \/ ~stg.reminderEnabled \/ stg.reminderThresholds = {}}

\* C37: a notification check that runs while the reminders are disabled or no
\* threshold is stored notifies nothing and leaves the tracker as it is, and
\* so would a check over the same rows under any settings row with reminders
\* disabled, without thresholds or with an empty list of them.
C37_DisabledCheckIsSilent ==
  [][AlarmCheckNotifications =>
       LET nt == [tracker |-> notificationTracker, sent |-> notifications]
       IN /\ ~RemindersOn(settings) =>
               /\ notifications' = notifications
               /\ notificationTracker' = notificationTracker
          /\ \A stg \in SilentSettings :
               CheckAndSendNotifications(nt, stg, websiteActivity, now) = nt]_vars

C37_Witness ==
  /\ settings.present
  /\ ~settings.reminderEnabled
  /\ response = NoResponse
  /\ ReachedToday(Thresholds) # {}
  /\ ReachedToday(Thresholds) \cap notificationTracker = {}
  /\ \E k \in ReachedToday(Thresholds) : notifications[k] = 0

\* C38: in every state a run reaches, the tab-activated listener applied to
\* any tab and URL leaves the Session empty or opened on that tab, on the
\* URL's domain, at this instant; and if that domain is not the one tracked
\* before, a flush one second later writes no row of the domain tracked before.
C38_ActivationReplacesSession ==
  \A tabId \in TabIds, url \in Urls, env \in Envs({"none"}) :
    LET st == OnActivated(Engine, tabId, url, env)
        later == SaveCurrentSession(st, now + TicksPerSec, tz, isUserIdle, timerCache,
                                    blockedWebsites, websiteTimers, env)
        prev == currentSession.domain
    IN /\ \/ st.cs = EmptySession
          \/ /\ url # <<>>
             /\ st.cs.tabId = tabId
             /\ st.cs.domain = ExtractDomain(url)
             /\ st.cs.startTime = now
       /\ (prev # NoDomain /\ prev # ExtractDomain(url))
            => \A r \in later.wa \ st.wa : r.domain # prev

====
